---- MODULE Spec2Model ----
(***************************************************************************)
(* Synthetic metrics generator: one logical value stream exported through  *)
(* a pull registry (Prometheus) and a push, delta-accumulating protocol    *)
(* (OpenTelemetry).  Values are integers; histogram observations and       *)
(* bucket boundaries are counted in thousandths.                           *)
(***************************************************************************)
EXTENDS Integers, Sequences, FiniteSets, TLC

VARIABLES
    metrics_config,    \* Config.metrics: the list of metric definitions
    label_combinations, \* generator.label_combinations of every metric: name -> label space
    prom_metrics,      \* PrometheusExporter.metrics: name -> [type, buckets]
    prom_values,       \* registry children of Counter/Gauge: <<name, labels>> -> value
    prom_observed,     \* observe() calls of Histogram/Summary children
    otel_views,        \* Views of the MeterProvider: instrument name -> boundaries
    instruments,       \* OTELExporter.instruments/instrument_types: name -> [type, otel_name]
    counter_state,     \* OTELExporter.counter_state: series key -> value
    gauge_cumulative,  \* OTELExporter.gauge_cumulative: series key -> value
    otel_calls,        \* calls made on the instruments, per <<name, attributes>>
    state,             \* MetricGenerator.state of every generator: name -> (label key -> value)
    tick_count,        \* GeneratorEngine.tick_count
    active_spikes,     \* ControlAPI.active_spikes: metric -> [multiplier, end_time]
    removers,          \* remove_spike threads still asleep or not yet run
    spike_requests,    \* number of trigger_spike requests served
    now,               \* time.time()
    key_table,         \* keys computed so far: <<name, labels>> -> [series_key, label_key]
    gens,              \* generator instances built outside the engine: id -> instance
    label_space,       \* the last call made on the cardinality functions, with its result
    exporters_enabled, \* config.exporters.prometheus.enabled, config.exporters.otel.enabled
    export_errors,     \* export_errors_total of SelfMetrics and of OTELSelfMetrics
    last_tick,         \* what the last tick() did: exceptions raised, batch built
    twin_state,        \* generator state of the same engine run with no control API
    running,           \* GeneratorEngine.running
    run_pc,            \* where the engine thread is in run()
    stop_pc,           \* where the main thread is in signal_handler / stop()
    iterations,        \* iterations of the while loop of run() entered so far
    tick_calls,        \* calls of tick() made by run() so far
    batch,             \* all_points of the tick in flight
    pacing,            \* tick_duration and sleep_time of the last iteration
    spike_lock,        \* ControlAPI._spike_lock: the thread holding it, or "free"
    threads,           \* threads of the control surface: id -> [op, pc, ...]
    boot               \* main(): the configuration document and how far startup got

promVars == <<prom_metrics, prom_values, prom_observed>>
otelVars == <<otel_views, instruments, counter_state, gauge_cumulative, otel_calls>>
engineVars == <<metrics_config, label_combinations, state, tick_count>>
controlVars == <<active_spikes, removers, spike_requests, now>>
libraryVars == <<gens, label_space>>
faultVars == <<exporters_enabled, export_errors, last_tick, twin_state>>
runVars == <<running, run_pc, stop_pc, iterations, tick_calls, batch, pacing>>
lockVars == <<spike_lock, threads>>
processVars == <<faultVars, runVars, lockVars, boot>>
vars == <<promVars, otelVars, engineVars, controlVars, key_table, libraryVars,
          processVars>>

----------------------------------------------------------------------------
(* Bounds of the model *)

MaxCalls == 3
MaxTime == 1
MaxSpikes == 1
MaxKeys == 2

(* Values a point can carry when a batch is handed to the exporters. *)
PointValues == {-1, 0, 1, 2}

----------------------------------------------------------------------------
(* Dictionaries: a Python dict is a function; get(k, d) and d[k] = v. *)

Get(map, k, default) == IF k \in DOMAIN map THEN map[k] ELSE default

Put(map, k, v) == [x \in DOMAIN map \cup {k} |-> IF x = k THEN v ELSE map[x]]

Del(map, k) == [x \in DOMAIN map \ {k} |-> map[x]]

EmptyMap == [x \in {} |-> 0]

RECURSIVE Sum(_)
Sum(s) == IF Len(s) = 0 THEN 0 ELSE Head(s) + Sum(Tail(s))

----------------------------------------------------------------------------
(* Strings: comparison as Python compares str, by code point. *)

AsciiOrder == "0123456789ABCDEFGHIJKLMNOPQRSTUVWXYZ_abcdefghijklmnopqrstuvwxyz"

Ord(ch) == CHOOSE i \in 1..Len(AsciiOrder) : SubSeq(AsciiOrder, i, i) = ch

RECURSIVE StrLess(_, _)
StrLess(s, t) ==
    IF Len(t) = 0 THEN FALSE
    ELSE IF Len(s) = 0 THEN TRUE
    ELSE LET a == SubSeq(s, 1, 1)
             b == SubSeq(t, 1, 1)
         IN IF a = b THEN StrLess(SubSeq(s, 2, Len(s)), SubSeq(t, 2, Len(t)))
            ELSE Ord(a) < Ord(b)

(* sorted(labels.items()): the label names in ascending order (names are unique). *)
RECURSIVE SortedNames(_)
SortedNames(names) ==
    IF names = {} THEN <<>>
    ELSE LET m == CHOOSE x \in names : \A y \in names \ {x} : StrLess(x, y)
         IN <<m>> \o SortedNames(names \ {m})

RECURSIVE Join(_, _)
Join(sep, parts) ==
    IF Len(parts) = 0 THEN ""
    ELSE IF Len(parts) = 1 THEN parts[1]
    ELSE parts[1] \o sep \o Join(sep, Tail(parts))

StartsWith(s, prefix) ==
    Len(s) >= Len(prefix) /\ SubSeq(s, 1, Len(prefix)) = prefix

(* base_name = point.name with the exporter's prefix stripped when it starts with it *)
StripPrefix(name, prefix) ==
    IF StartsWith(name, prefix) THEN SubSeq(name, Len(prefix) + 1, Len(name)) ELSE name

(* ",".join(f"{k}={v}" for k, v in sorted(labels.items())) *)
label_key(labels) ==
    LET names == SortedNames(DOMAIN labels)
    IN Join(",", [i \in 1..Len(names) |-> names[i] \o "=" \o labels[names[i]]])

(* OTELExporter._series_key *)
series_key(metric_name, labels) == metric_name \o ":" \o label_key(labels)

----------------------------------------------------------------------------
(* Configuration: the validated Config object the engine is built from. *)

PromPrefix == "prom_"
OtelPrefix == "otel_"

(* Optional fields: None is the empty sequence, a set field a sequence of one *)
None == <<>>

Some(v) == <<v>>

(* float('nan'), kept apart from every number a generator computes *)
NaN == -1000000

(* LabelValueSpec(values=vs) *)
ValuesSpec(vs) == [values |-> Some(vs), range |-> None, fmt |-> None]

(* LabelValueSpec(range=[start, end], fmt=fmt) *)
RangeSpec(start, end, fmt) == [values |-> None, range |-> Some(<<start, end>>), fmt |-> fmt]

(* A label dimension of a dict of label specifications, which keeps the order
   its keys were inserted in *)
Dim(name, spec) == [name |-> name, spec |-> spec]

(* MetricConfig(name=..., type=..., algorithm=...) with every other field at
   its default; buckets = <<>> stands for an unset (None) or empty list: both
   are falsy; labels = <<>> for an unset or empty dict likewise. *)
MetricConfig(name, type, algorithm) ==
    [name |-> name, type |-> type, algorithm |-> algorithm, labels |-> <<>>,
     seed |-> None, base_rate |-> None, start |-> None, step |-> None,
     clamp |-> None, mu |-> None, min |-> None, max |-> None, period_s |-> None,
     buckets |-> <<>>, allow_nan |-> FALSE]

CounterC == MetricConfig("c", "counter", "poisson")
CounterC2 == [CounterC EXCEPT !.labels = <<Dim("a", ValuesSpec(<<"x", "y">>))>>]
GaugeG == MetricConfig("g", "gauge", "random_walk")
HistogramH == [MetricConfig("h", "histogram", "lognormal") EXCEPT !.buckets = <<100, 200>>]
HistogramH0 == MetricConfig("h0", "histogram", "lognormal")
SummaryS == MetricConfig("s", "summary", "lognormal")

(* A configuration with every kind, a counter of two series, and histograms
   with and without buckets *)
FullConfig == <<CounterC2, GaugeG, HistogramH, HistogramH0, SummaryS>>

(* A configuration of three metrics of one series each *)
SmallConfig == <<CounterC, GaugeG, HistogramH>>

(* The cardinality profile's label specifications *)
ProfileLabels == <<Dim("a", ValuesSpec(<<"x">>))>>

(* The cardinality profile the metrics refer to *)
Profile ==
    [labels |-> ProfileLabels, series_cap |-> None, sampling_strategy |-> "first_n"]

MetricsConfig == metrics_config

MetricNames == {MetricsConfig[i].name : i \in 1..Len(MetricsConfig)}

(* A name no metric is configured under. *)
UnregisteredName == "u"

(* The first configuration entry of that name (metric names are unique). *)
ConfigOf(n) ==
    MetricsConfig[CHOOSE i \in 1..Len(MetricsConfig) : MetricsConfig[i].name = n]

----------------------------------------------------------------------------
(* Cardinality: label value generation and the label space *)

(* A format template: text followed by one integer conversion, "%0<width>d"
   (style "%") or "{}" (style "{}") *)
DefaultFmt == [style |-> "{}", prefix |-> "", width |-> 0]

RECURSIVE ZeroPad(_, _)
ZeroPad(s, width) == IF Len(s) >= width THEN s ELSE ZeroPad("0" \o s, width)

(* fmt % i when the template holds a '%', fmt.format(i) otherwise *)
Format(fmt, i) ==
    fmt.prefix \o (IF fmt.style = "%" THEN ZeroPad(ToString(i), fmt.width) ELSE ToString(i))

(* A range that leaves its end out *)
RECURSIVE RangeValues_Exclusive(_, _, _)
RangeValues_Exclusive(start, end, fmt) ==
    IF start >= end THEN <<>>
    ELSE <<Format(fmt, start)>> \o RangeValues_Exclusive(start + 1, end, fmt)

(* [format(i) for i in range(start, end + 1)] *)
RECURSIVE RangeValues(_, _, _)
RangeValues(start, end, fmt) ==
    IF start > end THEN <<>>
    ELSE <<Format(fmt, start)>> \o RangeValues(start + 1, end, fmt)

generate_label_values(spec) ==
    IF spec.values # None THEN spec.values[1]
    ELSE IF spec.range # None
         THEN RangeValues(spec.range[1][1], spec.range[1][2],
                          IF spec.fmt # None THEN spec.fmt[1] ELSE DefaultFmt)
    ELSE <<>>

(* A merge in which a specification already present wins *)
RECURSIVE DictUpdate_KeepFirst(_, _)
DictUpdate_KeepFirst(specs, more) ==
    IF Len(more) = 0 THEN specs
    ELSE LET e == Head(more)
             hit == {i \in 1..Len(specs) : specs[i].name = e.name}
         IN DictUpdate_KeepFirst(IF hit = {} THEN Append(specs, e) ELSE specs, Tail(more))

(* all_label_specs = dict(profile.labels); all_label_specs.update(additional_labels):
   a key already present keeps its place and takes the new specification *)
RECURSIVE DictUpdate(_, _)
DictUpdate(specs, more) ==
    IF Len(more) = 0 THEN specs
    ELSE LET e == Head(more)
             hit == {i \in 1..Len(specs) : specs[i].name = e.name}
             merged == IF hit = {} THEN Append(specs, e)
                       ELSE [i \in 1..Len(specs) |-> IF i \in hit THEN e ELSE specs[i]]
         IN DictUpdate(merged, Tail(more))

(* cartesian_product(lists): the first list varies slowest *)
RECURSIVE cartesian_product(_)
cartesian_product(lists) ==
    IF Len(lists) = 0 THEN << <<>> >>
    ELSE LET first == Head(lists)
             rest == cartesian_product(Tail(lists))
         IN [k \in 1..(Len(first) * Len(rest)) |->
                <<first[((k - 1) \div Len(rest)) + 1]>> \o rest[((k - 1) % Len(rest)) + 1]]

(* label_combinations[:cap] *)
SliceTo(l, cap) ==
    IF cap >= 0 THEN SubSeq(l, 1, IF cap < Len(l) THEN cap ELSE Len(l))
    ELSE SubSeq(l, 1, IF Len(l) + cap > 0 THEN Len(l) + cap ELSE 0)

(* The digest of a string as an integer.  The digest function itself is the
   library's; it is modelled as a polynomial hash over the characters, which
   like the digest depends on the string only. *)
HashAlphabet == ",-:=" \o AsciiOrder

CharCode(ch) == CHOOSE i \in 1..Len(HashAlphabet) : SubSeq(HashAlphabet, i, i) = ch

RECURSIVE md5(_)
md5(str) ==
    IF Len(str) = 0 THEN 7
    ELSE (CharCode(SubSeq(str, 1, 1)) + 131 * md5(SubSeq(str, 2, Len(str)))) % 1000003

(* label_hash(labels) of apply_series_cap *)
label_hash(labels) ==
    LET names == SortedNames(DOMAIN labels)
        label_str == Join(",", [i \in 1..Len(names) |-> names[i] \o "=" \o labels[names[i]]])
    IN md5(label_str)

(* sorted(label_combinations, key=label_hash): stable, ascending by hash *)
RECURSIVE sorted_by_hash(_)
sorted_by_hash(l) ==
    IF Len(l) = 0 THEN <<>>
    ELSE LET front == sorted_by_hash(SubSeq(l, 1, Len(l) - 1))
             x == l[Len(l)]
             k == Cardinality({i \in 1..Len(front) : label_hash(front[i]) <= label_hash(x)})
         IN SubSeq(front, 1, k) \o <<x>> \o SubSeq(front, k + 1, Len(front))

apply_series_cap(combinations, cap, strategy) ==
    IF strategy = "first_n" THEN SliceTo(combinations, cap)
    ELSE IF strategy = "hash" THEN SliceTo(sorted_by_hash(combinations), cap)
    ELSE SliceTo(combinations, cap)

(* profile.series_cap as a condition: set and not 0 *)
Truthy(opt) == opt # None /\ opt[1] # 0

(* generate_label_space(profile, additional_labels) *)
generate_label_space(profile, additional_labels) ==
    LET all_label_specs == DictUpdate(profile.labels, additional_labels)
        label_names == [i \in 1..Len(all_label_specs) |-> all_label_specs[i].name]
        label_value_lists ==
            [i \in 1..Len(all_label_specs) |-> generate_label_values(all_label_specs[i].spec)]
        product == cartesian_product(label_value_lists)
        combinations ==
            [k \in 1..Len(product) |->
                [n \in {label_names[i] : i \in 1..Len(label_names)} |->
                    product[k][CHOOSE i \in 1..Len(label_names) : label_names[i] = n]]]
    IN IF Len(all_label_specs) = 0 THEN << EmptyMap >>
       ELSE IF Truthy(profile.series_cap) /\ Len(combinations) > profile.series_cap[1]
            THEN apply_series_cap(combinations, profile.series_cap[1],
                                  profile.sampling_strategy)
       ELSE combinations

(* self.metric_types[metric_config.name] = metric_config.type *)
metric_types == [n \in MetricNames |-> ConfigOf(n).type]

----------------------------------------------------------------------------
(* Registration: the exporters' constructors and register_metric. *)

PromDefaultBuckets == <<5, 10, 25, 50, 100, 250, 500, 1000, 2500, 5000, 10000>>

(* Boundaries the SDK aggregates a histogram with when no View names it. *)
OtelSdkDefaultBoundaries ==
    <<0, 5000, 10000, 25000, 50000, 75000, 100000, 250000, 500000, 750000,
      1000000, 2500000, 5000000, 7500000, 10000000>>

TickDurationBuckets == <<1, 5, 10, 25, 50, 100, 250, 500, 1000>>

(* x or y on lists: the empty list is falsy *)
Or(x, y) == IF Len(x) > 0 THEN x ELSE y

(* PrometheusExporter.register_metric: the boundaries a Histogram is built with *)
PromHistogramBuckets(buckets, metric_config) ==
    Or(buckets, Or(metric_config.buckets, PromDefaultBuckets))

(* PrometheusExporter.register_metric *)
PromRegisterMetric(metrics, metric_name, metric_type, buckets) ==
    IF metric_name \notin MetricNames THEN metrics
    ELSE Put(metrics, metric_name,
             [type |-> metric_type,
              buckets |-> IF metric_type = "histogram"
                          THEN PromHistogramBuckets(buckets, ConfigOf(metric_name))
                          ELSE <<>>])

(* Whether _create_histogram_views creates a View for this metric *)
OtelHasView(metric_config) ==
    \/ metric_config.type = "histogram" /\ Len(metric_config.buckets) > 0
    \/ metric_config.type = "summary"

(* OTELExporter._create_histogram_views: instrument name -> boundaries *)
OtelCreateHistogramViews ==
    LET viewed == {i \in 1..Len(MetricsConfig) : OtelHasView(MetricsConfig[i])}
        names == {OtelPrefix \o MetricsConfig[i].name : i \in viewed}
                     \cup {OtelPrefix \o "gen_tick_duration_seconds"}
    IN [n \in names |->
          IF n = OtelPrefix \o "gen_tick_duration_seconds" THEN TickDurationBuckets
          ELSE ConfigOf(StripPrefix(n, OtelPrefix)).buckets]

(* OTELExporter.register_metric: the buckets argument is not used *)
OtelRegisterMetric(instrs, metric_name, metric_type, buckets) ==
    Put(instrs, metric_name, [type |-> metric_type, otel_name |-> OtelPrefix \o metric_name])

(* GeneratorEngine._initialize_generators: register the first n metrics on both exporters *)
RECURSIVE RegisterAll(_)
RegisterAll(n) ==
    IF n = 0 THEN [prom |-> EmptyMap, otel |-> EmptyMap]
    ELSE LET before == RegisterAll(n - 1)
             cfg == MetricsConfig[n]
         IN [prom |-> PromRegisterMetric(before.prom, cfg.name, cfg.type, cfg.buckets),
             otel |-> OtelRegisterMetric(before.otel, cfg.name, cfg.type, cfg.buckets)]

(* The boundaries each exporter aggregates a registered histogram with *)
PromBoundaries(metric_name) == prom_metrics[metric_name].buckets

OtelBoundaries(metric_name) ==
    Get(otel_views, instruments[metric_name].otel_name, OtelSdkDefaultBoundaries)

(* Index of the bucket an observation falls in: the first boundary it does not exceed *)
find_bucket(value, buckets) ==
    IF \E i \in 1..Len(buckets) : value <= buckets[i]
    THEN (CHOOSE i \in 1..Len(buckets) :
              value <= buckets[i] /\ \A j \in 1..(i - 1) : value > buckets[j]) - 1
    ELSE Len(buckets)

----------------------------------------------------------------------------
(* Push-model reconciler: OTELExporter.export_point *)

(* The history of the export_point calls that reached an instrument, per
   <<name, attributes>>: the point's value, the tracked value read before the
   write (prev_value, current_cumulative) and the amounts passed to add() or
   record(), in order. *)
Logged(calls, base_name, labels, entry) ==
    Put(calls, <<base_name, labels>>,
        Append(Get(calls, <<base_name, labels>>, <<>>), entry))

(* delta = point.value - prev_value *)
CounterDelta(value, prev_value) == value - prev_value

(* Variant: every growth re-sends the cumulative value instead of the delta *)
CounterAdds_Cumulative(value, prev_value) ==
    LET delta == CounterDelta(value, prev_value)
    IN IF delta > 0 THEN <<value>>
       ELSE IF delta < 0 THEN <<value>>
       ELSE <<>>

(* What the counter branch passes to Counter.add *)
CounterAdds(value, prev_value) ==
    LET delta == CounterDelta(value, prev_value)
    IN IF delta > 0 THEN <<delta>>
       ELSE IF delta < 0 THEN <<value>>
       ELSE <<>>

(* Variant: the tracked value is not re-based when a reset is detected *)
CounterStateAfter_GrowthOnly(cs, key, value) ==
    IF CounterDelta(value, Get(cs, key, 0)) > 0 THEN Put(cs, key, value) ELSE cs

(* counter_state after the counter branch *)
CounterStateAfter(cs, key, value) ==
    IF CounterDelta(value, Get(cs, key, 0)) # 0 THEN Put(cs, key, value) ELSE cs

(* Variant: a zero delta is sent too *)
GaugeAdds_NoSuppression(value, current_cumulative) ==
    <<value - current_cumulative>>

(* What the gauge branch passes to UpDownCounter.add *)
GaugeAdds(value, current_cumulative) ==
    LET delta == value - current_cumulative
    IN IF delta # 0 THEN <<delta>> ELSE <<>>

(* Variant: the tracked cumulative value is never updated *)
GaugeStateAfter_Stale(gc, key, value) == gc

(* gauge_cumulative after the gauge branch *)
GaugeStateAfter(gc, key, value) ==
    IF value - Get(gc, key, 0) # 0 THEN Put(gc, key, value) ELSE gc

(* Variant: the zero suppression of the other kinds applied to observations *)
HistogramRecords_SkipZero(value) == IF value # 0 THEN <<value>> ELSE <<>>

(* What the histogram and summary branches pass to Histogram.record *)
HistogramRecords(value) == <<value>>

(* Variant: every name is taken as registered *)
IsRegistered_Always(base_name, table) == TRUE

(* export_point's test of the stripped name against the registered instruments *)
IsRegistered(base_name, table) == base_name \in DOMAIN table

(* OTELExporter.export_point on o = [counter_state, gauge_cumulative, calls] *)
OtelExportPoint(o, point, metric_type) ==
    LET base_name == StripPrefix(point.name, OtelPrefix)
        key == series_key(base_name, point.labels)
    IN IF ~IsRegistered(base_name, instruments) THEN o
       ELSE IF metric_type = "counter" THEN
            [o EXCEPT
               !.calls = Logged(@, base_name, point.labels,
                   [value |-> point.value, prev |-> Get(o.counter_state, key, 0),
                    amounts |-> CounterAdds(point.value, Get(o.counter_state, key, 0))]),
               !.counter_state = CounterStateAfter(@, key, point.value)]
       ELSE IF metric_type = "gauge" THEN
            [o EXCEPT
               !.calls = Logged(@, base_name, point.labels,
                   [value |-> point.value, prev |-> Get(o.gauge_cumulative, key, 0),
                    amounts |-> GaugeAdds(point.value, Get(o.gauge_cumulative, key, 0))]),
               !.gauge_cumulative = GaugeStateAfter(@, key, point.value)]
       ELSE IF metric_type \in {"histogram", "summary"} THEN
            [o EXCEPT
               !.calls = Logged(@, base_name, point.labels,
                   [value |-> point.value, amounts |-> HistogramRecords(point.value)])]
       ELSE o

(* OTELExporter.export_points *)
RECURSIVE OtelExportPoints(_, _, _)
OtelExportPoints(o, points, types) ==
    IF Len(points) = 0 THEN o
    ELSE LET point == Head(points)
             base_name == StripPrefix(point.name, OtelPrefix)
             after == IF base_name \in DOMAIN types
                      THEN OtelExportPoint(o, point, types[base_name])
                      ELSE o
         IN OtelExportPoints(after, Tail(points), types)

----------------------------------------------------------------------------
(* Pull-model reconciler: PrometheusExporter.export_point *)

(* Variant: a child never goes down, as a Counter that is only incremented *)
PromWritten_Monotonic(old, value) == IF value > old THEN value ELSE old

(* The value the registry child of a Counter or Gauge holds after the write *)
PromWritten(old, value) == value

(* PrometheusExporter.export_point on p = [values, observed] *)
PromExportPoint(p, point, metric_type) ==
    LET base_name == StripPrefix(point.name, PromPrefix)
        child == <<base_name, point.labels>>
    IN IF base_name \notin DOMAIN prom_metrics THEN p
       ELSE IF metric_type \in {"counter", "gauge"} THEN
            [p EXCEPT !.values = Put(@, child, PromWritten(Get(@, child, 0), point.value))]
       ELSE IF metric_type \in {"histogram", "summary"} THEN
            [p EXCEPT !.observed = Put(@, child, Append(Get(@, child, <<>>), point.value))]
       ELSE p

(* PrometheusExporter.export_points *)
RECURSIVE PromExportPoints(_, _, _)
PromExportPoints(p, points, types) ==
    IF Len(points) = 0 THEN p
    ELSE LET point == Head(points)
             base_name == StripPrefix(point.name, PromPrefix)
             after == IF base_name \in DOMAIN types
                      THEN PromExportPoint(p, point, types[base_name])
                      ELSE p
         IN PromExportPoints(after, Tail(points), types)

----------------------------------------------------------------------------
(* GeneratorEngine.tick, export half: the batch goes to the pull exporter and
   then to the push exporter, each under its own name prefix. *)

Prefixed(points, prefix) ==
    [i \in 1..Len(points) |-> [points[i] EXCEPT !.name = prefix \o @]]

(* prom_points: the batch under the pull exporter's prefix *)
PromPoints(all_points) == Prefixed(all_points, PromPrefix)

(* Variant: the push batch is built with the pull exporter's prefix *)
OtelPoints_PromPrefix(all_points) == Prefixed(all_points, PromPrefix)

(* otel_points: the batch under the push exporter's prefix *)
OtelPoints(all_points) == Prefixed(all_points, OtelPrefix)

(* Exceptions raised during a tick.  A tick meets at most one: the generator
   of a metric raises on its first series; the multiplier lookup of
   a metric raises; an exporter's export_points raises after `at` points were
   written; the write of the at-th point raises inside export_point. *)
NoFault == [kind |-> "none"]

Exporters == {"prometheus", "otel"}

(* The exception can be met: the exporter is enabled and the batch long enough *)
FaultApplies(fault, all_points) ==
    /\ fault.kind = "export_points" =>
           exporters_enabled[fault.exporter] /\ fault.at <= Len(all_points)
    /\ fault.kind = "export_point" =>
           exporters_enabled[fault.exporter] /\ fault.at \in 1..Len(all_points)

(* Variant: an exception in one exporter's export_points empties the batch of
   the other exporter too *)
Written_Shared(points, fault, exporter) ==
    IF fault.kind = "export_points" THEN SubSeq(points, 1, 0)
    ELSE IF fault.kind = "export_point" /\ fault.exporter = exporter
    THEN SubSeq(points, 1, fault.at - 1) \o SubSeq(points, fault.at + 1, Len(points))
    ELSE points

(* The points an exporter writes: the whole batch; the points before the one
   at which export_points raised; all but the point whose write raised inside
   export_point, where the exception is caught and logged *)
Written(points, fault, exporter) ==
    IF fault.kind = "export_points" /\ fault.exporter = exporter
    THEN SubSeq(points, 1, fault.at)
    ELSE IF fault.kind = "export_point" /\ fault.exporter = exporter
    THEN SubSeq(points, 1, fault.at - 1) \o SubSeq(points, fault.at + 1, Len(points))
    ELSE points

(* The pull exporter after `if self.prom_exporter: ... export_points(prom_points, ...)` *)
PromAfter(all_points, fault) ==
    IF exporters_enabled.prometheus
    THEN PromExportPoints([values |-> prom_values, observed |-> prom_observed],
                          Written(PromPoints(all_points), fault, "prometheus"), metric_types)
    ELSE [values |-> prom_values, observed |-> prom_observed]

(* Variant: the tracked value is stored before the instrument is called *)
OtelWriteRaises_StateFirst(o, point, metric_type) ==
    [OtelExportPoint(o, point, metric_type) EXCEPT !.calls = o.calls]

(* OTELExporter.export_point when the call of the instrument raises: the
   assignment of the tracked value follows the call and is not reached, and
   the except clause logs the error and returns *)
OtelWriteRaises(o, point, metric_type) == o

(* The push exporter after `if self.otel_exporter: ... export_points(otel_points, ...)` *)
OtelAfter(all_points, fault) ==
    IF exporters_enabled.otel /\ fault.kind = "export_point" /\ fault.exporter = "otel"
    THEN LET points == OtelPoints(all_points)
             before == OtelExportPoints([counter_state |-> counter_state,
                                         gauge_cumulative |-> gauge_cumulative,
                                         calls |-> otel_calls],
                                        SubSeq(points, 1, fault.at - 1), metric_types)
             failed == OtelWriteRaises(before, points[fault.at],
                           metric_types[StripPrefix(points[fault.at].name, OtelPrefix)])
         IN OtelExportPoints(failed, SubSeq(points, fault.at + 1, Len(points)),
                             metric_types)
    ELSE IF exporters_enabled.otel
    THEN OtelExportPoints([counter_state |-> counter_state,
                           gauge_cumulative |-> gauge_cumulative,
                           calls |-> otel_calls],
                          Written(OtelPoints(all_points), fault, "otel"), metric_types)
    ELSE [counter_state |-> counter_state, gauge_cumulative |-> gauge_cumulative,
          calls |-> otel_calls]

ExportWith(all_points, fault) ==
    LET p == PromAfter(all_points, fault)
        o == OtelAfter(all_points, fault)
    IN /\ prom_values' = p.values
       /\ prom_observed' = p.observed
       /\ counter_state' = o.counter_state
       /\ gauge_cumulative' = o.gauge_cumulative
       /\ otel_calls' = o.calls
       /\ UNCHANGED <<prom_metrics, otel_views, instruments>>

ExportBatch(all_points) == ExportWith(all_points, NoFault)

(* record_export_error(exporter, metric_name) on a table of error counts *)
record_export_error(errors, exporter, metric_name) ==
    Put(errors, <<exporter, metric_name>>, Get(errors, <<exporter, metric_name>>, 0) + 1)

(* for metric_name in ...: record_export_error(exporter, metric_name) *)
RECURSIVE RecordEach(_, _, _)
RecordEach(errors, exporter, names) ==
    IF Len(names) = 0 THEN errors
    ELSE RecordEach(record_export_error(errors, exporter, Head(names)), exporter, Tail(names))

(* The names of the configured metrics, in configuration order: the keys of
   generators and of metric_types *)
MetricOrder == [i \in 1..Len(MetricsConfig) |-> MetricsConfig[i].name]

(* The error counts after a tick in which the generators of `raised` raised:
   self_metrics exists when the pull exporter is enabled, otel_self_metrics
   when the push exporter is; the handlers of both export_points calls count
   on self_metrics alone *)
ErrorsAfter(errors, raised, fault) ==
    LET whole(e) == fault.kind = "export_points" /\ fault.exporter = e
        generated ==
            [self_metrics |->
                 IF exporters_enabled.prometheus
                 THEN RecordEach(errors.self_metrics, "generator", raised)
                 ELSE errors.self_metrics,
             otel_self_metrics |->
                 IF exporters_enabled.otel
                 THEN RecordEach(errors.otel_self_metrics, "generator", raised)
                 ELSE errors.otel_self_metrics]
        prom == IF whole("prometheus") /\ exporters_enabled.prometheus
                THEN [generated EXCEPT
                        !.self_metrics = RecordEach(@, "prometheus", MetricOrder)]
                ELSE generated
    IN IF whole("otel") /\ exporters_enabled.otel /\ exporters_enabled.prometheus
       THEN [prom EXCEPT !.self_metrics = RecordEach(@, "otel", MetricOrder)]
       ELSE prom

(* Number of export_point calls that have reached a push instrument *)
RECURSIVE CallCount(_, _)
CallCount(calls, dom) ==
    IF dom = {} THEN 0
    ELSE LET s == CHOOSE x \in dom : TRUE
         IN Len(calls[s]) + CallCount(calls, dom \ {s})

BothEnabled == [prometheus |-> TRUE, otel |-> TRUE]

(* No tick has run *)
NoTick == [ticked |-> FALSE, seq |-> 0, spiked |-> {}]

(* What _initialize_exporters and _initialize_generators build from
   config.metrics: a disabled exporter is None and registers nothing *)
Constructed(enabled) ==
    [label_combinations |->
         [n \in MetricNames |-> generate_label_space(Profile, ConfigOf(n).labels)],
     prom_metrics |-> IF enabled.prometheus THEN RegisterAll(Len(MetricsConfig)).prom
                      ELSE EmptyMap,
     instruments |-> IF enabled.otel THEN RegisterAll(Len(MetricsConfig)).otel
                     ELSE EmptyMap,
     otel_views |-> IF enabled.otel THEN OtelCreateHistogramViews ELSE EmptyMap,
     state |-> [n \in MetricNames |-> EmptyMap]]

(* The state after GeneratorEngine.__init__(config), the exporters enabled as
   config.exporters says *)
EngineInitWith(config_metrics, enabled) ==
    /\ metrics_config = config_metrics
    /\ exporters_enabled = enabled
    /\ label_combinations = Constructed(enabled).label_combinations
    /\ prom_metrics = Constructed(enabled).prom_metrics
    /\ instruments = Constructed(enabled).instruments
    /\ otel_views = Constructed(enabled).otel_views
    /\ export_errors = [self_metrics |-> EmptyMap, otel_self_metrics |-> EmptyMap]
    /\ last_tick = NoTick
    /\ twin_state = Constructed(enabled).state
    /\ prom_values = EmptyMap
    /\ prom_observed = EmptyMap
    /\ counter_state = EmptyMap
    /\ gauge_cumulative = EmptyMap
    /\ otel_calls = EmptyMap
    /\ state = Constructed(enabled).state
    /\ tick_count = 0
    /\ active_spikes = EmptyMap
    /\ removers = {}
    /\ spike_requests = 0
    /\ now = 0
    /\ key_table = EmptyMap

EngineInit(config_metrics) == EngineInitWith(config_metrics, BothEnabled)

(* The run loop, the lock and startup are not followed: the engine is built
   and its ticks are taken one at a time *)
ThreadsIdle ==
    /\ running = FALSE
    /\ run_pc = "detached"
    /\ stop_pc = "idle"
    /\ iterations = 0
    /\ tick_calls = 0
    /\ batch = <<>>
    /\ pacing = [tick_duration |-> 0, sleep_time |-> 0]
    /\ spike_lock = "free"
    /\ threads = EmptyMap

ProcessIdle == ThreadsIdle /\ boot = [phase |-> "initialized"]

(* The points a batch can hold: any series of the label space, or a point of a
   name that was never registered. *)
SeriesOf(n) == {<<n, label_combinations[n][i]>> : i \in 1..Len(label_combinations[n])}

AllSeries == UNION {SeriesOf(n) : n \in MetricNames}

ExportPoint(name, labels, value) ==
    /\ CallCount(otel_calls, DOMAIN otel_calls) < MaxCalls
    /\ ExportBatch(<< [name |-> name, labels |-> labels, value |-> value] >>)
    /\ UNCHANGED <<engineVars, controlVars, key_table, libraryVars, processVars>>

ExportNext ==
    \E s \in AllSeries \cup {<<UnregisteredName, [a |-> "x"]>>}, v \in PointValues :
        ExportPoint(s[1], s[2], v)

(* No generator has been built and no cardinality function called outside the
   engine, whose ticks are taken one at a time *)
LibraryIdle == gens = <<>> /\ label_space = [call |-> "none"] /\ ProcessIdle

ExportInit == EngineInit(FullConfig) /\ LibraryIdle

SpecExport == ExportInit /\ [][ExportNext]_vars

----------------------------------------------------------------------------
(* Series keys: OTELExporter.export_point called with points whose label
   values are free text (no validation restricts a label value), the keys
   computed for each series being recorded. *)

(* Label combinations over the label names a and b *)
KeyLabels ==
    {[a |-> v] : v \in {"1", "p=q", "x:y"}}
        \cup {[a |-> v, b |-> w] : v \in {"1", "1,b=2"}, w \in {"3", "2,b=3"}}

(* One export_point call of the push exporter for a Counter or Gauge point *)
OtelExportKeyed(name, labels, value) ==
    /\ CallCount(otel_calls, DOMAIN otel_calls) < MaxKeys
    /\ LET o == OtelExportPoint(
                    [counter_state |-> counter_state,
                     gauge_cumulative |-> gauge_cumulative,
                     calls |-> otel_calls],
                    [name |-> OtelPrefix \o name, labels |-> labels, value |-> value],
                    metric_types[name])
       IN /\ counter_state' = o.counter_state
          /\ gauge_cumulative' = o.gauge_cumulative
          /\ otel_calls' = o.calls
    /\ key_table' = Put(key_table, <<name, labels>>,
                        [series_key |-> series_key(name, labels),
                         label_key |-> label_key(labels)])
    /\ UNCHANGED <<promVars, otel_views, instruments, engineVars, controlVars, libraryVars,
                   processVars>>

KeysNext ==
    \E name \in {"c", "g"}, labels \in KeyLabels, value \in {1, 2} :
        OtelExportKeyed(name, labels, value)

SpecKeys == ExportInit /\ [][KeysNext]_vars

----------------------------------------------------------------------------
(* Generators.  A draw of the generator's random stream is a choice from a
   small set; one draw is made per series per tick, in label-space order. *)

PoissonDraws == {0, 1}
NormalDraws == {-1, 1}
ObservationDraws == {150}

DrawSet(metric_type) ==
    IF metric_type = "counter" THEN PoissonDraws
    ELSE IF metric_type = "gauge" THEN NormalDraws
    ELSE ObservationDraws

(* The draws of one tick of one generator: one per label combination *)
DrawSeqs(n) == [1..Len(label_combinations[n]) -> DrawSet(metric_types[n])]

(* Arithmetic on values that may be NaN *)
IsNaN(v) == v = NaN

Add(a, b) == IF IsNaN(a) \/ IsNaN(b) THEN NaN ELSE a + b

(* x or default, for an optional number: unset and 0 are falsy, NaN is not *)
OrElse(opt, default) == IF opt = None \/ opt[1] = 0 THEN default ELSE opt[1]

(* Variant: the increment is added as drawn *)
Max0_Unclamped(x) == x

(* max(0, increment) *)
Max0(x) == IF x > 0 THEN x ELSE 0

(* MetricGenerator._clamp_value: np.clip(value, min_val, max_val), which is
   minimum(maximum(value, min_val), max_val) and keeps NaN *)
clamp_value(config, value) ==
    IF Len(config.clamp) > 0 /\ ~IsNaN(value)
    THEN LET low == IF value < config.clamp[1] THEN config.clamp[1] ELSE value
         IN IF low > config.clamp[2] THEN config.clamp[2] ELSE low
    ELSE value

(* MetricGenerator._handle_nan: None when the point is to be dropped *)
handle_nan(config, value) ==
    IF IsNaN(value) THEN (IF config.allow_nan THEN Some(value) ELSE None)
    ELSE Some(value)

(* CounterGenerator.tick over the first n label combinations *)
RECURSIVE CounterTick(_, _, _, _, _)
CounterTick(config, combinations, gs, n, draws) ==
    IF n = 0 THEN [state |-> gs, points |-> <<>>]
    ELSE LET before == CounterTick(config, combinations, gs, n - 1, draws)
             labels == combinations[n]
             key == label_key(labels)
             drawn == IF config.algorithm = "constant" THEN OrElse(config.base_rate, 1)
                      ELSE draws[n]
             increment == Max0(drawn)
             new_value == Get(before.state, key, 0) + increment
         IN [state |-> Put(before.state, key, new_value),
             points |-> Append(before.points,
                               [name |-> config.name, labels |-> labels, value |-> new_value])]

(* GaugeGenerator._generate_sawtooth *)
generate_sawtooth(config, t_s) ==
    LET period == OrElse(config.period_s, 3600)
        min_val == OrElse(config.min, 0)
        max_val == OrElse(config.max, 1)
    IN min_val + ((max_val - min_val) * (t_s % period)) \div period

(* GaugeGenerator.tick over the first n label combinations (random_walk,
   sawtooth and constant; any other algorithm name walks randomly) *)
RECURSIVE GaugeTick(_, _, _, _, _, _)
GaugeTick(config, combinations, gs, t_s, n, draws) ==
    IF n = 0 THEN [state |-> gs, points |-> <<>>]
    ELSE LET before == GaugeTick(config, combinations, gs, t_s, n - 1, draws)
             labels == combinations[n]
             key == label_key(labels)
             walks == config.algorithm \notin {"sawtooth", "constant"}
             walked == Add(Get(before.state, key, OrElse(config.start, 0)), draws[n])
             generated == IF config.algorithm = "sawtooth" THEN generate_sawtooth(config, t_s)
                          ELSE IF config.algorithm = "constant" THEN OrElse(config.start, 0)
                          ELSE walked
             value == handle_nan(config, clamp_value(config, generated))
         IN [state |-> IF walks THEN Put(before.state, key, walked) ELSE before.state,
             points |-> IF value # None
                        THEN Append(before.points,
                                    [name |-> config.name, labels |-> labels,
                                     value |-> value[1]])
                        ELSE before.points]

(* Variant: an observation of exactly 0 is not emitted *)
ObservationEmitted_Positive(value) == value # None /\ ~IsNaN(value[1]) /\ value[1] > 0

(* value is not None and value >= 0 (false of NaN) *)
ObservationEmitted(value) == value # None /\ ~IsNaN(value[1]) /\ value[1] >= 0

(* HistogramGenerator.tick and SummaryGenerator.tick over the first n label
   combinations *)
RECURSIVE ObservationTick(_, _, _, _, _)
ObservationTick(config, combinations, gs, n, draws) ==
    IF n = 0 THEN [state |-> gs, points |-> <<>>]
    ELSE LET before == ObservationTick(config, combinations, gs, n - 1, draws)
             labels == combinations[n]
             value == handle_nan(config, draws[n])
         IN [state |-> before.state,
             points |-> IF ObservationEmitted(value)
                        THEN Append(before.points,
                                    [name |-> config.name, labels |-> labels,
                                     value |-> value[1]])
                        ELSE before.points]

(* The branch of CounterGenerator.tick an algorithm name takes *)
CounterAlgorithm(algorithm) ==
    IF algorithm = "poisson" THEN "poisson"
    ELSE IF algorithm = "constant" THEN "constant"
    ELSE "poisson"

(* The branch of GaugeGenerator.tick an algorithm name takes *)
GaugeAlgorithm(algorithm) ==
    IF algorithm = "random_walk" THEN "random_walk"
    ELSE IF algorithm = "sine" THEN "sine"
    ELSE IF algorithm = "bernoulli" THEN "bernoulli"
    ELSE IF algorithm = "sawtooth" THEN "sawtooth"
    ELSE IF algorithm = "constant" THEN "constant"
    ELSE "random_walk"

(* The branch of HistogramGenerator.tick an algorithm name takes *)
HistogramAlgorithm(algorithm) ==
    IF algorithm = "lognormal" THEN "lognormal"
    ELSE IF algorithm = "exponential" THEN "exponential"
    ELSE IF algorithm = "mixture" THEN "mixture"
    ELSE "lognormal"

(* The branch of SummaryGenerator.tick an algorithm name takes *)
SummaryAlgorithm(algorithm) ==
    IF algorithm = "lognormal" THEN "lognormal"
    ELSE IF algorithm = "exponential" THEN "exponential"
    ELSE "lognormal"

(* The generating branch a tick of the generator of this configuration runs *)
SelectedAlgorithm(config) ==
    IF config.type = "counter" THEN CounterAlgorithm(config.algorithm)
    ELSE IF config.type = "gauge" THEN GaugeAlgorithm(config.algorithm)
    ELSE IF config.type = "histogram" THEN HistogramAlgorithm(config.algorithm)
    ELSE SummaryAlgorithm(config.algorithm)

(* generator.tick(t_s) of the generator create_generator built *)
GeneratorTick(config, combinations, gs, t_s, draws) ==
    LET n == Len(combinations)
    IN IF config.type = "counter" THEN CounterTick(config, combinations, gs, n, draws)
       ELSE IF config.type = "gauge" THEN GaugeTick(config, combinations, gs, t_s, n, draws)
       ELSE ObservationTick(config, combinations, gs, n, draws)

----------------------------------------------------------------------------
(* Generator instances and their random streams.  np.random.default_rng(seed)
   yields a stream that is a function of the seed alone; it is modelled by a
   linear congruential sequence, and each distribution by a function of the
   raw number drawn. *)

MaxGenTicks == 2

GlobalSeeds == {0, 1}

(* The k-th raw number of the stream seeded with seed *)
RECURSIVE Raw(_, _)
Raw(seed, k) == IF k = 0 THEN (7 * seed + 2) % 16 ELSE (5 * Raw(seed, k - 1) + 3) % 16

(* rng.poisson(rate) *)
PoissonSample(raw, rate) == raw % (rate + 1)

(* rng.normal(0, step) *)
NormalSample(raw, step) == ((raw % 3) - 1) * step

(* rng.lognormal(mu, sigma): NaN when mu is NaN *)
LognormalSample(raw, mu) == IF IsNaN(mu) THEN NaN ELSE 50 * (raw % 4)

(* The value the generator's distribution yields for a raw number *)
Sample(config, raw) ==
    IF config.type = "counter" THEN PoissonSample(raw, OrElse(config.base_rate, 1))
    ELSE IF config.type = "gauge" THEN NormalSample(raw, OrElse(config.step, 1))
    ELSE LognormalSample(raw, OrElse(config.mu, 0))

(* Whether a tick of the generator draws from its stream at all *)
Draws(config) ==
    ~(config.type \in {"counter", "gauge"} /\ config.algorithm = "constant")
        /\ ~(config.type = "gauge" /\ config.algorithm = "sawtooth")

(* Variant: a seed of 0 counts as unset *)
EffectiveSeed_Falsy(config, global_seed) == OrElse(config.seed, global_seed)

(* seed = config.seed if config.seed is not None else global_seed *)
EffectiveSeed(config, global_seed) ==
    IF config.seed # None THEN config.seed[1] ELSE global_seed

(* MetricGenerator.__init__, by way of create_generator *)
create_generator(config, combinations, global_seed) ==
    [config |-> config, global_seed |-> global_seed,
     label_combinations |-> combinations,
     rng |-> [seed |-> EffectiveSeed(config, global_seed), drawn |-> 0],
     state |-> EmptyMap, emitted |-> <<>>]

(* Metric configurations generators are built from; every one has the two
   series a=x, a=y unless its own label range is empty *)
TwoSeries(config) == [config EXCEPT !.labels = <<Dim("a", ValuesSpec(<<"x", "y">>))>>]

GenConfigs ==
    {TwoSeries(c) : c \in
        {CounterC,
         [CounterC EXCEPT !.seed = Some(0)],
         [CounterC EXCEPT !.algorithm = "constant"],
         [CounterC EXCEPT !.algorithm = "constant", !.base_rate = Some(0)],
         [CounterC EXCEPT !.algorithm = "constant", !.base_rate = Some(2)],
         [CounterC EXCEPT !.algorithm = "constant", !.base_rate = Some(-1)],
         [CounterC EXCEPT !.algorithm = "constant", !.base_rate = Some(1), !.clamp = <<0, 1>>],
         [GaugeG EXCEPT !.seed = Some(1)],
         [GaugeG EXCEPT !.clamp = <<0, 1>>],
         [GaugeG EXCEPT !.start = Some(NaN)],
         [GaugeG EXCEPT !.start = Some(NaN), !.allow_nan = TRUE],
         [GaugeG EXCEPT !.algorithm = "sawtooth", !.max = Some(2), !.period_s = Some(2)],
         HistogramH,
         [HistogramH EXCEPT !.seed = Some(0), !.clamp = <<50, 100>>],
         [HistogramH EXCEPT !.mu = Some(NaN)],
         [HistogramH EXCEPT !.mu = Some(NaN), !.allow_nan = TRUE],
         [SummaryS EXCEPT !.seed = Some(0)],
         [HistogramH EXCEPT !.algorithm = "mixture"],
         [SummaryS EXCEPT !.algorithm = "mixture"],
         [CounterC EXCEPT !.algorithm = "zipf"],
         [GaugeG EXCEPT !.algorithm = "zipf"],
         [HistogramH EXCEPT !.algorithm = "zipf"],
         [SummaryS EXCEPT !.algorithm = "zipf"],
         [SummaryS EXCEPT !.mu = Some(NaN), !.allow_nan = TRUE]}}
        \cup {[CounterC EXCEPT !.labels = <<Dim("a", RangeSpec(3, 2, None))>>]}

(* Two generators are built from one metric configuration, each with the
   global seed of its own process *)
GenInit ==
    \E config \in GenConfigs, seeds \in [{1, 2} -> GlobalSeeds] :
        /\ EngineInit(<<config>>)
        /\ gens = [i \in {1, 2} |->
                      create_generator(config, label_combinations[config.name], seeds[i])]
        /\ label_space = [call |-> "none"]
        /\ ProcessIdle

(* list(generator.tick(t_s)) on instance i; its k-th tick is given timestamp k - 1 *)
GenTick(i) ==
    LET g == gens[i]
        t_s == Len(g.emitted)
        n == Len(g.label_combinations)
        draws == [k \in 1..n |-> Sample(g.config, Raw(g.rng.seed, g.rng.drawn + k - 1))]
        run == GeneratorTick(g.config, g.label_combinations, g.state, t_s, draws)
    IN /\ Len(g.emitted) < MaxGenTicks
       /\ gens' = [gens EXCEPT ![i] =
                      [g EXCEPT !.rng.drawn = IF Draws(g.config) THEN @ + n ELSE @,
                                !.state = run.state,
                                !.emitted = Append(@, [t_s |-> t_s, points |-> run.points,
                                                       algorithm |-> SelectedAlgorithm(g.config)])]]
       /\ UNCHANGED <<promVars, otelVars, engineVars, controlVars, key_table, label_space,
                    processVars>>

GenNext == \E i \in DOMAIN gens : GenTick(i)

SpecGen == GenInit /\ [][GenNext]_vars

----------------------------------------------------------------------------
(* The cardinality functions called on their own, with profiles and label
   specifications drawn from small pools.  The functions are pure, so every
   behaviour is one call, recorded in label_space. *)

MaxEnd == 2
MaxCap == 3

LabelNames == {"az", "region"}

(* "i-%02d" *)
PaddedFmt == [style |-> "%", prefix |-> "i-", width |-> 2]

(* Label specifications: value lists, and ranges [start, end] with either end
   first *)
SpecPool ==
    {ValuesSpec(v) : v \in {<<"us", "eu">>, <<"a", "b">>}}
        \cup {RangeSpec(start, end, None) : start \in 1..MaxEnd, end \in 1..MaxEnd}
        \cup {RangeSpec(1, 2, Some(PaddedFmt))}

(* Dicts of label specifications with at most one entry per label name *)
LabelDicts ==
    {<<>>}
        \cup {<<Dim(n, sp)>> : n \in LabelNames, sp \in SpecPool}
        \cup {<<Dim(n[1], sp1), Dim(n[2], sp2)>> :
                 n \in {m \in LabelNames \X LabelNames : m[1] # m[2]},
                 sp1 \in SpecPool, sp2 \in SpecPool}

(* The label specifications a metric adds: none, an override, a new label *)
AdditionalLabels ==
    {<<>>, <<Dim("az", ValuesSpec(<<"z">>))>>, <<Dim("id", RangeSpec(1, 2, None))>>}

Profiles ==
    {[labels |-> l, series_cap |-> cap, sampling_strategy |-> st] :
        l \in LabelDicts, cap \in {None} \cup {Some(n) : n \in 0..MaxCap},
        st \in {"first_n", "hash"}}

(* generate_label_space(profile, additional_labels), as _initialize_generators
   calls it for a metric *)
GenerateLabelSpace(profile, additional_labels) ==
    /\ label_space.call = "none"
    /\ label_space' = [call |-> "generate_label_space", profile |-> profile,
                       additional_labels |-> additional_labels,
                       result |-> generate_label_space(profile, additional_labels)]
    /\ UNCHANGED <<promVars, otelVars, engineVars, controlVars, key_table, gens, processVars>>

(* Label combinations apply_series_cap is called with, free-text values included *)
CombinationPool ==
    {[a |-> v, b |-> w] : v \in {"1", "1,b=2"}, w \in {"3", "2,b=3"}} \cup {[a |-> "4", b |-> "5"]}

(* Lists of up to three distinct combinations, in any order *)
CombinationLists ==
    {<<>>}
        \cup {<<c>> : c \in CombinationPool}
        \cup {l \in CombinationPool \X CombinationPool : l[1] # l[2]}
        \cup {l \in CombinationPool \X CombinationPool \X CombinationPool :
                 l[1] # l[2] /\ l[1] # l[3] /\ l[2] # l[3]}

(* apply_series_cap(label_combinations, cap, strategy) *)
ApplySeriesCap(combinations, cap, strategy) ==
    /\ label_space.call = "none"
    /\ label_space' = [call |-> "apply_series_cap", combinations |-> combinations,
                       cap |-> cap, strategy |-> strategy,
                       result |-> apply_series_cap(combinations, cap, strategy)]
    /\ UNCHANGED <<promVars, otelVars, engineVars, controlVars, key_table, gens, processVars>>

LabelsNext ==
    \/ \E profile \in Profiles, additional_labels \in AdditionalLabels :
           GenerateLabelSpace(profile, additional_labels)
    \/ \E combinations \in CombinationLists, cap \in 0..MaxCap,
          strategy \in {"first_n", "hash"} :
           ApplySeriesCap(combinations, cap, strategy)

LabelsInit == EngineInit(SmallConfig) /\ LibraryIdle

SpecLabels == LabelsInit /\ [][LabelsNext]_vars

----------------------------------------------------------------------------
(* Control surface: the spike override table *)

SpikeMultipliers == {0, 2}
SpikeDurations == {1}

(* Variant: an override is applied for as long as its entry is in the table *)
get_spike_multiplier_Unexpiring(spikes, metric_name, current_time) ==
    IF metric_name \in DOMAIN spikes
    THEN [multiplier |-> spikes[metric_name].multiplier, spikes |-> spikes]
    ELSE [multiplier |-> 1, spikes |-> spikes]

(* ControlAPI.get_spike_multiplier: the multiplier, and the table after the
   lookup (an expired entry is deleted) *)
get_spike_multiplier(spikes, metric_name, current_time) ==
    IF metric_name \in DOMAIN spikes
    THEN IF current_time < spikes[metric_name].end_time
         THEN [multiplier |-> spikes[metric_name].multiplier, spikes |-> spikes]
         ELSE [multiplier |-> 1, spikes |-> Del(spikes, metric_name)]
    ELSE [multiplier |-> 1, spikes |-> spikes]

(* trigger_spike past its validation: the entry is stored and the removal
   thread started *)
RegisterSpike(metric, multiplier, duration_s) ==
    /\ metric \in DOMAIN state
    /\ active_spikes' = Put(active_spikes, metric,
                            [multiplier |-> multiplier, end_time |-> now + duration_s])
    /\ removers' = removers \cup
           {[id |-> spike_requests, metric |-> metric, wake |-> now + duration_s]}
    /\ spike_requests' = spike_requests + 1
    /\ UNCHANGED <<promVars, otelVars, engineVars, now, key_table, libraryVars, processVars>>

(* POST /control/spike *)
TriggerSpike(metric, multiplier, duration_s) ==
    /\ spike_requests < MaxSpikes
    /\ RegisterSpike(metric, multiplier, duration_s)

(* remove_spike: the thread trigger_spike starts, once its sleep has ended *)
RemoveSpike(r) ==
    /\ now >= r.wake
    /\ active_spikes' = IF r.metric \in DOMAIN active_spikes
                        THEN Del(active_spikes, r.metric)
                        ELSE active_spikes
    /\ removers' = removers \ {r}
    /\ UNCHANGED <<promVars, otelVars, engineVars, spike_requests, now, key_table, libraryVars,
                   processVars>>

(* Time passes *)
Tock ==
    /\ now < MaxTime
    /\ now' = now + 1
    /\ UNCHANGED <<promVars, otelVars, engineVars, active_spikes, removers,
                   spike_requests, key_table, libraryVars, processVars>>

----------------------------------------------------------------------------
(* GeneratorEngine.tick *)

(* point.value *= spike_multiplier, when the multiplier is not 1.0 *)
Scaled(points, spike_multiplier) ==
    IF spike_multiplier # 1
    THEN [i \in 1..Len(points) |-> [points[i] EXCEPT !.value = @ * spike_multiplier]]
    ELSE points

(* Variant: the points a generator yielded before it raised stay in the batch *)
PointsKept_Partial(points, raised) == points

(* all_points.extend(points) is reached only when nothing raised before it *)
PointsKept(points, raised) == IF raised THEN <<>> ELSE points

(* Variant: the multiplier is written back into the generator's state *)
StateKept_Scaled(gen_state, spike_multiplier) ==
    [k \in DOMAIN gen_state |-> gen_state[k] * spike_multiplier]

(* generator.tick has stored its state before the multiplier is looked up, and
   point.value *= spike_multiplier acts on the yielded points only *)
StateKept(gen_state, spike_multiplier) == gen_state

(* The generation loop over the first i generators, in insertion order, each
   inside its own try block *)
RECURSIVE GenerateFaulty(_, _, _)
GenerateFaulty(i, draws, fault) ==
    IF i = 0 THEN [state |-> state, spikes |-> active_spikes, all_points |-> <<>>,
                   raised |-> <<>>, invoked |-> <<>>, multipliers |-> <<>>,
                   scaled |-> {}]
    ELSE LET before == GenerateFaulty(i - 1, draws, fault)
             name == MetricsConfig[i].name
             gen == GeneratorTick(ConfigOf(name), label_combinations[name],
                                  before.state[name], now, draws[i])
             lookup == get_spike_multiplier(before.spikes, name, now)
             generator_raises == fault.kind = "generator" /\ fault.metric = name
             lookup_raises == fault.kind = "lookup" /\ fault.metric = name
         IN IF generator_raises
            THEN [before EXCEPT !.raised = Append(@, name), !.invoked = Append(@, name),
                                !.all_points = @ \o PointsKept(gen.points, TRUE)]
            ELSE IF lookup_raises
            THEN [before EXCEPT !.state = [@ EXCEPT ![name] = gen.state],
                                !.raised = Append(@, name), !.invoked = Append(@, name),
                                !.all_points = @ \o PointsKept(gen.points, TRUE)]
            ELSE [state |-> [before.state EXCEPT
                                 ![name] = StateKept(gen.state, lookup.multiplier)],
                  spikes |-> lookup.spikes,
                  all_points |-> before.all_points
                                     \o PointsKept(Scaled(gen.points, lookup.multiplier), FALSE),
                  raised |-> before.raised,
                  invoked |-> Append(before.invoked, name),
                  multipliers |-> Append(before.multipliers, lookup.multiplier),
                  scaled |-> IF lookup.multiplier # 1 THEN before.scaled \cup {name}
                             ELSE before.scaled]

(* The generation loop when nothing raises *)
GenerateAll(i, draws) == GenerateFaulty(i, draws, NoFault)

(* The generation loop of an engine built with control_api=None, on the same
   configuration and the same draws *)
RECURSIVE TwinGenerate(_, _)
TwinGenerate(i, draws) ==
    IF i = 0 THEN [state |-> twin_state, all_points |-> <<>>]
    ELSE LET before == TwinGenerate(i - 1, draws)
             name == MetricsConfig[i].name
             gen == GeneratorTick(ConfigOf(name), label_combinations[name],
                                  before.state[name], now, draws[i])
         IN [state |-> [before.state EXCEPT ![name] = gen.state],
             all_points |-> before.all_points \o gen.points]

(* The draws of one tick of the first i generators *)
RECURSIVE TickDraws(_)
TickDraws(i) ==
    IF i = 0 THEN {<<>>}
    ELSE {Append(d, x) : d \in TickDraws(i - 1), x \in DrawSeqs(MetricsConfig[i].name)}

(* GeneratorEngine.tick with the given draws, meeting the given exception *)
TickBody(draws, fault) ==
    LET run == GenerateFaulty(Len(MetricsConfig), draws, fault)
        twin == TwinGenerate(Len(MetricsConfig), draws)
    IN /\ FaultApplies(fault, run.all_points)
       /\ state' = run.state
       /\ active_spikes' = run.spikes
       /\ ExportWith(run.all_points, fault)
       /\ export_errors' = ErrorsAfter(export_errors, run.raised, fault)
       /\ tick_count' = tick_count + 1
       /\ twin_state' = twin.state
       /\ last_tick' = [ticked |-> TRUE, seq |-> last_tick.seq + 1, draws |-> draws,
                        fault |-> fault, all_points |-> run.all_points,
                        invoked |-> run.invoked, multipliers |-> run.multipliers,
                        twin_points |-> twin.all_points, scaled |-> run.scaled,
                        spiked |-> last_tick.spiked \cup run.scaled]
       /\ UNCHANGED <<metrics_config, label_combinations, removers, spike_requests, now,
                      key_table, libraryVars, exporters_enabled, runVars, lockVars, boot>>

(* One tick in which nothing raises; run() starts the k-th tick no earlier
   than k intervals (of one time unit) after the first *)
Tick ==
    /\ tick_count <= now
    /\ \E draws \in TickDraws(Len(MetricsConfig)) : TickBody(draws, NoFault)

(* Ticks that meet exceptions, over every combination of enabled exporters *)

MaxFaultTicks == 2

(* A counter that adds 1 a tick and a gauge that walks *)
FaultConfig == <<[CounterC EXCEPT !.algorithm = "constant"], GaugeG>>

Faults ==
    {NoFault}
        \cup {[kind |-> k, metric |-> m] : k \in {"generator", "lookup"}, m \in MetricNames}
        \cup {[kind |-> "export_points", exporter |-> e, at |-> n] : e \in Exporters, n \in 0..1}
        \cup {[kind |-> "export_point", exporter |-> e, at |-> 1] : e \in Exporters}

FaultyTick ==
    /\ tick_count < MaxFaultTicks
    /\ \E draws \in TickDraws(Len(MetricsConfig)), fault \in Faults : TickBody(draws, fault)

FaultInit ==
    \E enabled \in [Exporters -> BOOLEAN] :
        EngineInitWith(FaultConfig, enabled) /\ LibraryIdle

SpecFaults == FaultInit /\ [][FaultyTick]_vars

Next ==
    \/ Tick
    \/ \E m \in MetricNames, k \in SpikeMultipliers, d \in SpikeDurations :
           TriggerSpike(m, k, d)
    \/ \E r \in removers : RemoveSpike(r)
    \/ Tock

Init == EngineInit(SmallConfig) /\ LibraryIdle

Spec == Init /\ [][Next]_vars

----------------------------------------------------------------------------
(* Views of the history used to state the properties *)

CounterSeries == {s \in AllSeries : metric_types[s[1]] = "counter"}
GaugeSeries == {s \in AllSeries : metric_types[s[1]] = "gauge"}
ObservationSeries == {s \in AllSeries : metric_types[s[1]] \in {"histogram", "summary"}}

History(s) == Get(otel_calls, s, <<>>)

(* The values delivered for a series, in order *)
Delivered(s) == [i \in 1..Len(History(s)) |-> History(s)[i].value]

(* The amounts sent by the deliveries from..to of a series, in order *)
RECURSIVE SentIn(_, _, _)
SentIn(s, from, to) ==
    IF from > to THEN <<>>
    ELSE History(s)[from].amounts \o SentIn(s, from + 1, to)

Sent(s) == SentIn(s, 1, Len(History(s)))

Last(seq) == seq[Len(seq)]

Before(vs, i) == IF i = 1 THEN 0 ELSE vs[i - 1]

NonDecreasingFromZero(vs) == \A i \in 1..Len(vs) : vs[i] >= Before(vs, i)

Diffs(vs) == [i \in 1..Len(vs) |-> vs[i] - Before(vs, i)]

Positive(x) == x > 0

(* The tracked value of a series right after its i-th delivery *)
TrackedAfter(s, tracked, i) ==
    IF i < Len(History(s)) THEN History(s)[i + 1].prev
    ELSE Get(tracked, series_key(s[1], s[2]), 0)

----------------------------------------------------------------------------
(* C1. Counter delta conservation: when the cumulative values delivered for a
   Counter series, starting from empty reconciler state, never decrease (from
   v0 = 0 on), the increments passed to add() are exactly the strictly
   positive successive differences, in order, and their sum is the last value
   delivered. *)
C1_CounterDeltaConservation ==
    \A s \in CounterSeries :
        NonDecreasingFromZero(Delivered(s)) =>
            /\ Sent(s) = SelectSeq(Diffs(Delivered(s)), Positive)
            /\ Len(Delivered(s)) > 0 => Sum(Sent(s)) = Last(Delivered(s))

(* The shape of [5, 12, 18, 25, 25]: growth, then a repeated value that sends nothing *)
C1_Witness ==
    \E s \in CounterSeries : Delivered(s) = <<1, 2, 2>> /\ Sent(s) = <<1, 1>>

(* C2. Gauge delta conservation: after every delivery for a Gauge series the
   running total of the deltas passed to add() equals the last value delivered. *)
C2_GaugeDeltaConservation ==
    \A s \in GaugeSeries :
        Len(Delivered(s)) > 0 => Sum(Sent(s)) = Last(Delivered(s))

(* The shape of [50, 55, 53, 60, 60]: up, down, and a repeated value *)
C2_Witness ==
    \E s \in GaugeSeries : Delivered(s) = <<2, 1, 1>> /\ Sent(s) = <<2, -1>>

(* C3. Cross-protocol parity: after every tick with both exporters enabled,
   the value last written to the pull registry for a Counter or Gauge series
   equals the sum of all the deltas sent so far to the push instrument of
   that series, spike overrides registered, expired or cleared in between
   included. *)
C3_CrossProtocolParity ==
    \A s \in CounterSeries \cup GaugeSeries :
        s \in DOMAIN prom_values => prom_values[s] = Sum(Sent(s))

(* C4. Counter reset rule: a Counter point whose value is lower than the
   tracked value is sent whole as the increment and becomes the tracked value;
   the increments sent from the most recent reset on (that send included) sum
   to the latest value delivered. *)
IsReset(s, i) == History(s)[i].value < History(s)[i].prev

C4_CounterResetRule ==
    \A s \in CounterSeries :
        /\ \A i \in 1..Len(History(s)) :
              IsReset(s, i) =>
                  /\ History(s)[i].amounts = <<History(s)[i].value>>
                  /\ TrackedAfter(s, counter_state, i) = History(s)[i].value
        /\ \A r \in 1..Len(History(s)) :
              (IsReset(s, r) /\ \A j \in (r + 1)..Len(History(s)) : ~IsReset(s, j)) =>
                  Sum(SentIn(s, r, Len(History(s)))) = Last(Delivered(s))

(* A reset followed by further growth *)
C4_Witness ==
    \E s \in CounterSeries : Delivered(s) = <<2, 1, 2>> /\ Sent(s) = <<2, 1, 1>>

(* C5. The push-model reconciler passes only strictly positive amounts to a
   Counter instrument, whatever the sequence of incoming values, and a value
   equal to the tracked value causes no add() and no state change. *)
C5_CounterAddsArePositive ==
    \A s \in CounterSeries :
        \A i \in 1..Len(History(s)) :
            /\ \A k \in 1..Len(History(s)[i].amounts) : History(s)[i].amounts[k] > 0
            /\ History(s)[i].value = History(s)[i].prev =>
                   /\ History(s)[i].amounts = <<>>
                   /\ TrackedAfter(s, counter_state, i) = History(s)[i].prev

(* C6. Gauge first observation and zero suppression: the first point of a
   Gauge series is compared with 0, every later point with the value delivered
   before it; the delta sent is the difference (possibly negative), and no add()
   is made when the difference is 0, a first value of 0 included. *)
C6_GaugeDeltas ==
    \A s \in GaugeSeries :
        \A i \in 1..Len(History(s)) :
            LET e == History(s)[i]
                last_communicated == Before(Delivered(s), i)
            IN /\ e.prev = last_communicated
               /\ e.amounts = IF e.value - last_communicated = 0 THEN <<>>
                              ELSE <<e.value - last_communicated>>

(* A first value of 0 that sends nothing, then a rise and a fall *)
C6_Witness ==
    \E s \in GaugeSeries : Delivered(s) = <<0, 2, 1>> /\ Sent(s) = <<2, -1>>

(* C7. Histogram and Summary points pass through the push-model reconciler
   unmodified and statelessly: each records exactly the point's value, and the
   step leaves counter_state and gauge_cumulative as they were. *)
ObservationStep ==
    \E s \in ObservationSeries : Get(otel_calls', s, <<>>) # Get(otel_calls, s, <<>>)

C7_ObservationsPassThrough ==
    /\ [](\A s \in ObservationSeries :
             \A i \in 1..Len(History(s)) :
                 History(s)[i].amounts = <<History(s)[i].value>>)
    /\ [][ObservationStep =>
             /\ counter_state' = counter_state
             /\ gauge_cumulative' = gauge_cumulative]_vars

(* A histogram and a summary have both recorded, one of them a zero, next to
   tracked counter state *)
C7_Witness ==
    /\ \E s \in ObservationSeries : metric_types[s[1]] = "histogram" /\ Sent(s) = <<0>>
    /\ \E s \in ObservationSeries : metric_types[s[1]] = "summary" /\ Sent(s) = <<2>>
    /\ DOMAIN counter_state # {}

(* C8. The pull-model reconciler writes the logical value directly: after a
   Counter or Gauge point the registry child holds the point's value whatever
   it held before, and every Histogram/Summary point is observed once, as is. *)
C8_PullWritesLogicalValue ==
    /\ \A s \in CounterSeries \cup GaugeSeries :
          Len(Delivered(s)) > 0 =>
              s \in DOMAIN prom_values /\ prom_values[s] = Last(Delivered(s))
    /\ \A s \in ObservationSeries :
          Get(prom_observed, s, <<>>) = Delivered(s)

(* A Counter child written with a value lower than the one it held *)
C8_Witness ==
    \E s \in CounterSeries : Delivered(s) = <<2, 1>> /\ prom_values[s] = 1

(* C9. Histogram bucket parity: every histogram registered on both exporters,
   with or without declared buckets, is aggregated with the same boundaries by
   both, so an observation falls in the same bucket index on both. *)
HistogramMetrics ==
    {n \in DOMAIN prom_metrics \cap DOMAIN instruments : instruments[n].type = "histogram"}

C9_HistogramBucketParity ==
    \A n \in HistogramMetrics :
        /\ PromBoundaries(n) = OtelBoundaries(n)
        /\ \A v \in {120, 140, 150, 160, 180} :
               find_bucket(v, PromBoundaries(n)) = find_bucket(v, OtelBoundaries(n))

(* C10. SeriesKey is injective: two distinct (metric name, label combination)
   pairs, label values containing ',' '=' or ':' included, never get the
   same series key, and two distinct label combinations of one metric never
   get the same generator label key. *)
C10_SeriesKeyInjective ==
    \A s \in DOMAIN key_table, t \in DOMAIN key_table :
        s # t =>
            /\ key_table[s].series_key # key_table[t].series_key
            /\ s[1] = t[1] => key_table[s].label_key # key_table[t].label_key

----------------------------------------------------------------------------
(* Views of the generator instances used to state the properties *)

Instances == DOMAIN gens

OfType(i, types) == gens[i].config.type \in types

(* The points instance i emitted at its t-th tick *)
PointsAt(i, t) == gens[i].emitted[t].points

(* The labels of a sequence of points, in order *)
LabelsOf(points) == [k \in 1..Len(points) |-> points[k].labels]

(* The label combinations of the label space that occur among the points, in
   label-space order *)
SpaceRestrictedTo(combinations, points) ==
    LET Occurs(c) == \E k \in 1..Len(points) : points[k].labels = c
    IN SelectSeq(combinations, Occurs)

(* A configuration whose generator computes undefined values: a random walk
   started at NaN, a lognormal of undefined mu *)
YieldsUndefined(config) ==
    \/ config.type = "gauge" /\ config.start = Some(NaN)
    \/ config.type \in {"histogram", "summary"} /\ config.mu = Some(NaN)

(* C11. Counter generator monotonicity: the value a CounterGenerator emits for
   a series at a tick is never lower than the value it emitted for that
   series at the tick before, a negative configured base_rate included. *)
C11_CounterMonotone ==
    \A i \in Instances :
        OfType(i, {"counter"}) =>
            \A t \in 2..Len(gens[i].emitted) :
                \A k \in 1..Len(PointsAt(i, t)), j \in 1..Len(PointsAt(i, t - 1)) :
                    PointsAt(i, t)[k].labels = PointsAt(i, t - 1)[j].labels =>
                        PointsAt(i, t)[k].value >= PointsAt(i, t - 1)[j].value

(* A constant counter of base_rate -1 has ticked twice and stayed at 0 *)
C11_Witness ==
    \E i \in Instances :
        /\ OfType(i, {"counter"})
        /\ gens[i].config.base_rate = Some(-1)
        /\ Len(gens[i].emitted) = 2
        /\ Len(PointsAt(i, 2)) = 2
        /\ PointsAt(i, 2)[1].value = 0

(* C12. Determinism: two generator instances built from the same metric
   configuration with the same effective seed (the metric's seed when set, 0
   included, otherwise the global seed) and fed the same tick timestamps emit
   the same sequences of points. *)
C12_Determinism ==
    \A i \in Instances, j \in Instances :
        LET seed_i == IF gens[i].config.seed # None THEN gens[i].config.seed[1]
                      ELSE gens[i].global_seed
            seed_j == IF gens[j].config.seed # None THEN gens[j].config.seed[1]
                      ELSE gens[j].global_seed
        IN (gens[i].config = gens[j].config /\ seed_i = seed_j) =>
               \A t \in 1..Len(gens[i].emitted) :
                   t <= Len(gens[j].emitted) => gens[i].emitted[t] = gens[j].emitted[t]

(* Two instances of a metric with seed 0, built under different global seeds,
   have both ticked twice and emitted points *)
C12_Witness ==
    /\ gens[1].config.seed = Some(0)
    /\ gens[1].global_seed # gens[2].global_seed
    /\ Len(gens[1].emitted) = 2 /\ Len(gens[2].emitted) = 2
    /\ PointsAt(1, 2) # <<>>

(* C13. Every tick emits at most one point per label combination, in the order
   of the label space, each carrying the metric name and the combination's
   labels; a counter emits exactly one per combination, and the other kinds
   miss a point only when the value was undefined or negative. *)
C13_OnePointPerCombination ==
    \A i \in Instances :
        \A t \in 1..Len(gens[i].emitted) :
            LET points == PointsAt(i, t)
                combinations == gens[i].label_combinations
            IN /\ LabelsOf(points) = SpaceRestrictedTo(combinations, points)
               /\ \A k \in 1..Len(points) : points[k].name = gens[i].config.name
               /\ OfType(i, {"counter"}) => LabelsOf(points) = combinations
               /\ ~YieldsUndefined(gens[i].config) => LabelsOf(points) = combinations

(* A histogram has emitted one point for each of its two series, in order *)
C13_Witness ==
    \E i \in Instances :
        /\ OfType(i, {"histogram"})
        /\ Len(gens[i].emitted) = 2
        /\ LabelsOf(PointsAt(i, 2)) = <<[a |-> "x"], [a |-> "y"]>>

(* C14. Histogram/Summary undefined-value policy: without allow_nan no
   negative or undefined value is emitted; with allow_nan an undefined draw is
   emitted as a point carrying the undefined value. *)
C14_UndefinedValuePolicy ==
    \A i \in Instances :
        OfType(i, {"histogram", "summary"}) =>
            \A t \in 1..Len(gens[i].emitted) :
                /\ ~gens[i].config.allow_nan =>
                       \A k \in 1..Len(PointsAt(i, t)) :
                           ~IsNaN(PointsAt(i, t)[k].value) /\ PointsAt(i, t)[k].value >= 0
                /\ (gens[i].config.allow_nan /\ YieldsUndefined(gens[i].config)) =>
                       /\ LabelsOf(PointsAt(i, t)) = gens[i].label_combinations
                       /\ \A k \in 1..Len(PointsAt(i, t)) : IsNaN(PointsAt(i, t)[k].value)

(* C15. Clamping applies to every metric kind: when the configuration sets
   clamp = [min, max], every defined value a generator emits lies within
   [min, max]. *)
C15_ClampAllKinds ==
    \A i \in Instances :
        Len(gens[i].config.clamp) > 0 =>
            \A t \in 1..Len(gens[i].emitted) :
                \A k \in 1..Len(PointsAt(i, t)) :
                    LET v == PointsAt(i, t)[k].value
                    IN IsNaN(v) \/ (gens[i].config.clamp[1] <= v /\ v <= gens[i].config.clamp[2])

----------------------------------------------------------------------------
(* Views of a recorded call of the cardinality functions *)

IsGenerate == label_space.call = "generate_label_space"

IsCap == label_space.call = "apply_series_cap"

(* The label names of a dict of label specifications *)
NamesOf(dict) == {dict[i].name : i \in 1..Len(dict)}

(* The specification a dict holds for a name *)
SpecOf(dict, n) == dict[CHOOSE i \in 1..Len(dict) : dict[i].name = n].spec

(* The specification in force for a label: the metric's where the metric names
   the label, the profile's otherwise *)
EffectiveSpec(profile, additional_labels, n) ==
    IF n \in NamesOf(additional_labels) THEN SpecOf(additional_labels, n)
    ELSE SpecOf(profile.labels, n)

(* The values of a sequence, as a set *)
Range(l) == {l[i] : i \in 1..Len(l)}

(* The product of the numbers size[n], n in names *)
RECURSIVE SizeProduct(_, _)
SizeProduct(names, size) ==
    IF names = {} THEN 1
    ELSE LET n == CHOOSE m \in names : TRUE
         IN size[n] * SizeProduct(names \ {n}, size)

(* A specification that resolves through its range *)
IsRange(spec) == spec.values = None /\ spec.range # None

(* C16. Without a series cap generate_label_space returns the Cartesian
   product of the resolved value lists: as many combinations as the product
   of the dimension sizes, every choice of one value per dimension exactly
   once, all combinations over the same label names; a range [start, end]
   resolves to the end - start + 1 formatted values start..end. *)
C16_CartesianProduct ==
    (IsGenerate /\ label_space.profile.series_cap = None) =>
        LET profile == label_space.profile
            additional == label_space.additional_labels
            result == label_space.result
            names == NamesOf(profile.labels) \cup NamesOf(additional)
            values == [n \in names |->
                          generate_label_values(EffectiveSpec(profile, additional, n))]
            choices == {f \in [names -> UNION {Range(values[n]) : n \in names}] :
                           \A n \in names : f[n] \in Range(values[n])}
        IN /\ Len(result) = SizeProduct(names, [n \in names |-> Len(values[n])])
           /\ \A k \in 1..Len(result) : DOMAIN result[k] = names
           /\ \A f \in choices : Cardinality({k \in 1..Len(result) : result[k] = f}) = 1
           /\ \A n \in names :
                  LET spec == EffectiveSpec(profile, additional, n)
                      start == spec.range[1][1]
                      end == spec.range[1][2]
                      fmt == IF spec.fmt # None THEN spec.fmt[1] ELSE DefaultFmt
                  IN (IsRange(spec) /\ start <= end) =>
                         /\ Len(values[n]) = end - start + 1
                         /\ \A j \in 1..Len(values[n]) :
                                values[n][j] = Format(fmt, start + j - 1)

(* region: [us, eu] with az: i-01, i-02 has given the four combinations *)
C16_Witness ==
    /\ IsGenerate
    /\ label_space.profile.series_cap = None
    /\ label_space.profile.labels =
           <<Dim("region", ValuesSpec(<<"us", "eu">>)),
             Dim("az", RangeSpec(1, 2, Some(PaddedFmt)))>>
    /\ label_space.additional_labels = <<>>
    /\ Range(label_space.result) =
           {[region |-> r, az |-> z] : r \in {"us", "eu"}, z \in {"i-01", "i-02"}}
    /\ Len(label_space.result) = 4

(* C17. first_n cap: for every configured cap N >= 0 a product of more than N
   combinations is cut to exactly its first N combinations in product order,
   and a product of at most N combinations is returned whole. *)
C17_FirstNCap ==
    (IsGenerate /\ label_space.profile.series_cap # None
                /\ label_space.profile.sampling_strategy = "first_n") =>
        LET N == label_space.profile.series_cap[1]
            whole == generate_label_space([label_space.profile EXCEPT !.series_cap = None],
                                          label_space.additional_labels)
        IN IF Len(whole) > N THEN label_space.result = SubSeq(whole, 1, N)
           ELSE label_space.result = whole

(* The permutations of a list *)
PermutationsOf(l) ==
    {q \in [1..Len(l) -> Range(l)] : \A x \in Range(l) : \E i \in 1..Len(l) : q[i] = x}

(* C18. hash cap: apply_series_cap with the hash strategy returns exactly cap
   combinations (all of them when there are fewer), and the result depends
   only on the set of input combinations: every permutation of the input
   list gives the same result. *)
C18_HashCapOrderIndependent ==
    (IsCap /\ label_space.strategy = "hash") =>
        /\ Len(label_space.result) =
               (IF label_space.cap < Len(label_space.combinations) THEN label_space.cap
                ELSE Len(label_space.combinations))
        /\ \A q \in PermutationsOf(label_space.combinations) :
               apply_series_cap(q, label_space.cap, "hash") = label_space.result

(* C19. A metric's label specification replaces the profile's specification
   of the same name: every combination carries, for each label, a value of
   the specification in force, and an uncapped space shows all of them.  With
   no label dimension at all the space is exactly one combination, the empty
   label set. *)
C19_MergeAndEmpty ==
    IsGenerate =>
        LET profile == label_space.profile
            additional == label_space.additional_labels
            result == label_space.result
            names == NamesOf(profile.labels) \cup NamesOf(additional)
            values == [n \in names |->
                          generate_label_values(EffectiveSpec(profile, additional, n))]
        IN /\ names = {} => result = << EmptyMap >>
           /\ \A k \in 1..Len(result) :
                  /\ DOMAIN result[k] = names
                  /\ \A n \in names : result[k][n] \in Range(values[n])
           /\ (profile.series_cap = None /\ result # <<>>) =>
                  \A n \in names : {result[k][n] : k \in 1..Len(result)} = Range(values[n])

(* A profile with az: [a, b] under a metric with az: [z] has given
   combinations whose az is z *)
C19_Witness ==
    /\ IsGenerate
    /\ "az" \in NamesOf(label_space.profile.labels)
    /\ SpecOf(label_space.profile.labels, "az") = ValuesSpec(<<"a", "b">>)
    /\ label_space.additional_labels = <<Dim("az", ValuesSpec(<<"z">>))>>
    /\ label_space.result # <<>>
    /\ \A k \in 1..Len(label_space.result) : label_space.result[k]["az"] = "z"

(* A metric configuration with a label range whose end is below its start *)
HasMalformedRange(config) ==
    \E d \in 1..Len(config.labels) :
        LET spec == config.labels[d].spec
        IN IsRange(spec) /\ spec.range[1][2] < spec.range[1][1]

(* C20. A label range whose end is below its start is rejected when the
   configuration is read: no generator built from such a configuration ever
   ticks over an empty or partial label space. *)
C20_MalformedRangeRejected ==
    \A i \in Instances : HasMalformedRange(gens[i].config) => gens[i].emitted = <<>>

----------------------------------------------------------------------------
(* Views of a tick *)

(* A step in which tick() ran *)
TickStep == last_tick'.seq = last_tick.seq + 1

(* The points of a batch that carry a metric's name *)
PointsOf(points, n) == LET Named(pt) == pt.name = n IN SelectSeq(points, Named)

(* The exception of a tick hit the generation of metric n *)
GenerationFailed(tick, n) ==
    tick.fault.kind \in {"generator", "lookup"} /\ tick.fault.metric = n

(* The exporters' contents as records *)
PromState == [values |-> prom_values, observed |-> prom_observed]

OtelState ==
    [counter_state |-> counter_state, gauge_cumulative |-> gauge_cumulative,
     calls |-> otel_calls]

(* The sum of the counts of a table *)
RECURSIVE Total(_)
Total(table) ==
    IF DOMAIN table = {} THEN 0
    ELSE LET k == CHOOSE x \in DOMAIN table : TRUE
         IN table[k] + Total(Del(table, k))

(* All export errors counted so far, on either self-metrics object *)
ErrorTotal(errors) == Total(errors.self_metrics) + Total(errors.otel_self_metrics)

(* C22. A metric whose generator or multiplier lookup raises during a tick
   contributes no point to the tick's batch; every other metric's points are
   generated as without the exception and the batch reaches every enabled
   exporter in the same tick; and every tick, the one after a failure
   included, invokes every metric's generator. *)
C22_GenerationFailureIsolated ==
    [][TickStep =>
          LET tick == last_tick'
          IN /\ tick.invoked = MetricOrder
             /\ \A i \in 1..Len(MetricsConfig) :
                    LET n == MetricsConfig[i].name
                        unfailed == GeneratorTick(ConfigOf(n), label_combinations[n],
                                                  state[n], now, tick.draws[i]).points
                    IN IF GenerationFailed(tick, n) THEN PointsOf(tick.all_points, n) = <<>>
                       ELSE PointsOf(tick.all_points, n) = unfailed
             /\ tick.fault.kind \in {"generator", "lookup"} =>
                    /\ PromState' = PromAfter(tick.all_points, NoFault)
                    /\ OtelState' = OtelAfter(tick.all_points, NoFault)]_vars

(* The counter's generator raised in the second tick: the counter stayed at 1
   on the pull side while the gauge was written, and both generators ran *)
C22_Witness ==
    /\ last_tick.ticked
    /\ last_tick.seq = 2
    /\ last_tick.fault = [kind |-> "generator", metric |-> "c"]
    /\ exporters_enabled = BothEnabled
    /\ Len(last_tick.all_points) = 1
    /\ last_tick.all_points[1].name = "g"
    /\ <<"g", [a |-> "x"]>> \in DOMAIN prom_values
    /\ <<"g", [a |-> "x"]>> \in DOMAIN otel_calls
    /\ last_tick.invoked = <<"c", "g">>

(* C23. When one exporter's export_points raises during a tick, the other
   enabled exporter is handed the full batch in that tick and the tick
   completes (tick_count goes up by one); the tick after it hands the full
   batch to both exporters again. *)
C23_ExportFailureIsolated ==
    [][TickStep =>
          LET tick == last_tick'
              failed(e) == tick.fault.kind = "export_points" /\ tick.fault.exporter = e
          IN /\ tick_count' = tick_count + 1
             /\ failed("prometheus") => OtelState' = OtelAfter(tick.all_points, NoFault)
             /\ failed("otel") => PromState' = PromAfter(tick.all_points, NoFault)
             /\ (last_tick.ticked /\ last_tick.fault.kind = "export_points"
                    /\ tick.fault = NoFault) =>
                    /\ PromState' = PromAfter(tick.all_points, NoFault)
                    /\ OtelState' = OtelAfter(tick.all_points, NoFault)]_vars

(* The pull exporter's export_points raised before its first point while the
   push exporter recorded the counter and the gauge; the tick was counted *)
C23_Witness ==
    /\ last_tick.ticked
    /\ last_tick.fault = [kind |-> "export_points", exporter |-> "prometheus", at |-> 0]
    /\ exporters_enabled = BothEnabled
    /\ tick_count = 1
    /\ prom_values = EmptyMap
    /\ Len(last_tick.all_points) = 2
    /\ DOMAIN otel_calls = {<<"c", [a |-> "x"]>>, <<"g", [a |-> "x"]>>}

(* C24. Whenever a write fails during a tick, be it the write of one point
   inside export_point or export_points as a whole, an export-error counter
   goes up, whichever exporters are enabled. *)
C24_ExportFailuresCounted ==
    [][(TickStep /\ last_tick'.fault.kind \in {"export_point", "export_points"}) =>
          ErrorTotal(export_errors') > ErrorTotal(export_errors)]_vars

(* C25. A spike multiplier scales the points of the tick in which it is
   active and nothing else: the generators' state is at every moment the
   state of an engine that never had an override and saw the same draws, and
   in a tick every metric without an active override, one whose override has
   gone included, yields exactly that engine's points. *)
C25_SpikeNotPersisted ==
    /\ state = twin_state
    /\ last_tick.ticked =>
           \A n \in MetricNames \ last_tick.scaled :
               PointsOf(last_tick.all_points, n) = PointsOf(last_tick.twin_points, n)

(* The counter was doubled in the first tick, its override expired, and the
   second tick yielded the counter unscaled from a state that is not zero *)
C25_Witness ==
    /\ last_tick.ticked
    /\ last_tick.seq = 2
    /\ "c" \in last_tick.spiked \ last_tick.scaled
    /\ "c" \notin DOMAIN active_spikes
    /\ Len(PointsOf(last_tick.all_points, "c")) = 1
    /\ PointsOf(last_tick.all_points, "c")[1].value > 0
    /\ \E hist \in {Get(otel_calls, <<"c", [a |-> "x"]>>, <<>>)} :
           Len(hist) = 2 /\ hist[1].value > 0 /\ hist[1].value % 2 = 0

----------------------------------------------------------------------------
(* GeneratorEngine.run and GeneratorEngine.stop: the engine thread that main
   starts, and the main thread that handles a signal.  Neither thread waits
   for the other; tick() is followed through its generation loop and its
   export blocks as two steps of the engine thread. *)

MaxIterations == 3
MaxDuration == 2

(* config.global_.tick_interval_s *)
TickInterval == 1

(* time.time() - tick_start at the end of an iteration *)
TickDurations == 0..MaxDuration

(* One counter that adds 1 a tick *)
RunConfig == <<[CounterC EXCEPT !.algorithm = "constant"]>>

(* Variant: the remaining time is not clamped *)
SleepTime_Unclamped(tick_interval, tick_duration) == tick_interval - tick_duration

(* sleep_time = max(0, tick_interval - tick_duration) *)
SleepTime(tick_interval, tick_duration) ==
    IF tick_interval - tick_duration > 0 THEN tick_interval - tick_duration ELSE 0

(* main: engine_thread.start() *)
StartThread ==
    /\ run_pc = "detached"
    /\ run_pc' = "start"
    /\ UNCHANGED <<promVars, otelVars, engineVars, controlVars, key_table, libraryVars,
                   faultVars, running, stop_pc, iterations, tick_calls, batch, pacing,
                   lockVars, boot>>

(* run: self.running = True, the first statement of run() *)
RunStart ==
    /\ run_pc = "start"
    /\ running' = TRUE
    /\ run_pc' = "test"
    /\ UNCHANGED <<promVars, otelVars, engineVars, controlVars, key_table, libraryVars,
                   faultVars, stop_pc, iterations, tick_calls, batch, pacing, lockVars, boot>>

(* run: while self.running, followed for at most `bound` iterations *)
LoopTestWithin(bound) ==
    /\ run_pc = "test"
    /\ IF running
       THEN /\ iterations < bound
            /\ iterations' = iterations + 1
            /\ run_pc' = "generate"
       ELSE /\ run_pc' = "exited"
            /\ UNCHANGED iterations
    /\ UNCHANGED <<promVars, otelVars, engineVars, controlVars, key_table, libraryVars,
                   faultVars, running, stop_pc, tick_calls, batch, pacing, lockVars, boot>>

LoopTest == LoopTestWithin(MaxIterations)

(* run: self.tick() is called; tick: the generation loop *)
RunGenerate ==
    /\ run_pc = "generate"
    /\ \E draws \in TickDraws(Len(MetricsConfig)) :
           LET run == GenerateAll(Len(MetricsConfig), draws)
               twin == TwinGenerate(Len(MetricsConfig), draws)
           IN /\ state' = run.state
              /\ active_spikes' = run.spikes
              /\ batch' = run.all_points
              /\ twin_state' = twin.state
    /\ tick_calls' = tick_calls + 1
    /\ run_pc' = "export"
    /\ UNCHANGED <<promVars, otelVars, metrics_config, label_combinations, tick_count,
                   removers, spike_requests, now, key_table, libraryVars, exporters_enabled,
                   export_errors, last_tick, running, stop_pc, iterations, pacing, lockVars,
                   boot>>

(* tick: the export blocks and tick_count += 1; tick() returns *)
RunExport ==
    /\ run_pc = "export"
    /\ ExportBatch(batch)
    /\ tick_count' = tick_count + 1
    /\ run_pc' = "pace"
    /\ UNCHANGED <<metrics_config, label_combinations, state, controlVars, key_table,
                   libraryVars, faultVars, running, stop_pc, iterations, tick_calls, batch,
                   pacing, lockVars, boot>>

(* run: the sleep time is computed; time.sleep(sleep_time) is entered when it
   is positive, else the warning is logged and the loop test comes next *)
Pace ==
    /\ run_pc = "pace"
    /\ \E tick_duration \in TickDurations :
           LET sleep_time == SleepTime(TickInterval, tick_duration)
           IN /\ pacing' = [tick_duration |-> tick_duration, sleep_time |-> sleep_time]
              /\ run_pc' = IF sleep_time > 0 THEN "sleep" ELSE "test"
    /\ UNCHANGED <<promVars, otelVars, engineVars, controlVars, key_table, libraryVars,
                   faultVars, running, stop_pc, iterations, tick_calls, batch, lockVars, boot>>

(* run: time.sleep returns *)
Wake ==
    /\ run_pc = "sleep"
    /\ run_pc' = "test"
    /\ UNCHANGED <<promVars, otelVars, engineVars, controlVars, key_table, libraryVars,
                   faultVars, running, stop_pc, iterations, tick_calls, batch, pacing,
                   lockVars, boot>>

(* stop: self.running = False; main calls it once the thread has been started *)
StopClearFlag ==
    /\ stop_pc = "idle"
    /\ run_pc # "detached"
    /\ running' = FALSE
    /\ stop_pc' = "flagged"
    /\ UNCHANGED <<promVars, otelVars, engineVars, controlVars, key_table, libraryVars,
                   faultVars, run_pc, iterations, tick_calls, batch, pacing, lockVars, boot>>

(* stop: the push exporter is shut down and stop() returns *)
StopReturn ==
    /\ stop_pc = "flagged"
    /\ stop_pc' = "returned"
    /\ UNCHANGED <<promVars, otelVars, engineVars, controlVars, key_table, libraryVars,
                   faultVars, running, run_pc, iterations, tick_calls, batch, pacing,
                   lockVars, boot>>

(* signal_handler: sys.exit after stop() has returned; the engine thread is a
   daemon thread and ends with the process wherever it is *)
ProcessExit ==
    /\ stop_pc = "returned"
    /\ stop_pc' = "exited"
    /\ run_pc' = IF run_pc = "exited" THEN "exited" ELSE "killed"
    /\ UNCHANGED <<promVars, otelVars, engineVars, controlVars, key_table, libraryVars,
                   faultVars, running, iterations, tick_calls, batch, pacing, lockVars, boot>>

RunNext ==
    \/ StartThread
    \/ RunStart
    \/ LoopTest
    \/ RunGenerate
    \/ RunExport
    \/ Pace
    \/ Wake
    \/ StopClearFlag
    \/ StopReturn
    \/ ProcessExit

RunInit == EngineInit(RunConfig) /\ LibraryIdle

SpecRun == RunInit /\ [][RunNext]_vars

(* Steps of the engine thread *)
GenerateStep == run_pc = "generate" /\ run_pc' = "export"
ExportStep == run_pc = "export" /\ run_pc' = "pace"
EnterIteration == run_pc = "test" /\ run_pc' = "generate"
LeavePace == run_pc = "pace" /\ run_pc' \in {"sleep", "test"}

(* stop() has been called *)
StopRequested == stop_pc # "idle"

(* C26. Once stop() has returned, the engine thread invokes no generator and
   writes to no exporter. *)
C26_QuietAfterStop ==
    [][(stop_pc \in {"returned", "exited"}) => ~(GenerateStep \/ ExportStep)]_vars

(* C27. Once stop() has been called, whenever after the engine thread was
   started, the loop test at an iteration boundary starts no new iteration,
   and no iteration in flight ends before its export step. *)
C27_StopEndsLoop ==
    [][/\ (StopRequested /\ run_pc = "test" /\ run_pc' # run_pc) => run_pc' = "exited"
       /\ run_pc \in {"generate", "export"} => run_pc' # "killed"]_vars

(* C28. Each iteration of the loop calls tick() exactly once and then waits
   max(0, interval - elapsed), never a negative time; after an overrun the
   next loop test follows at once, and at every iteration boundary the ticks
   executed equal the iterations entered. *)
C28_TickPacing ==
    /\ [](/\ pacing.sleep_time >= 0
          /\ run_pc \in {"test", "sleep", "exited"} =>
                 tick_calls = iterations /\ tick_count = iterations
          /\ run_pc \in {"generate"} => tick_calls = iterations - 1
          /\ run_pc \in {"export", "pace"} => tick_calls = iterations)
    /\ [][/\ LeavePace =>
              /\ pacing'.sleep_time =
                     (IF TickInterval > pacing'.tick_duration
                      THEN TickInterval - pacing'.tick_duration ELSE 0)
              /\ pacing'.tick_duration >= TickInterval => run_pc' = "test"
              /\ pacing'.tick_duration < TickInterval => run_pc' = "sleep"
          /\ EnterIteration => tick_calls = iterations
          /\ GenerateStep => tick_calls' = tick_calls + 1]_vars

(* The second iteration overran its interval: no sleep, the third loop test
   is next, and two ticks have run in two iterations *)
C28_Witness ==
    /\ run_pc = "test"
    /\ iterations = 2
    /\ tick_calls = 2
    /\ tick_count = 2
    /\ pacing = [tick_duration |-> 2, sleep_time |-> 0]

----------------------------------------------------------------------------
(* ControlAPI._spike_lock: the engine thread (get_spike_multiplier), the
   event loop thread of the HTTP server (status, trigger_spike) and the
   remove_spike threads, each followed through its with-block: waiting for
   the lock, inside the block before its access, after its access, released. *)

(* Variant: the with statement is entered whoever holds the lock *)
CanAcquire_Always(lock) == TRUE

(* threading.Lock: acquired only when no thread holds it *)
CanAcquire(lock) == lock = "free"

(* A thread that has reached its with statement *)
AtLock(op, metric, multiplier, duration_s) ==
    [op |-> op, pc |-> "waiting", metric |-> metric, multiplier |-> multiplier,
     duration_s |-> duration_s, wake |-> 0, seen |-> EmptyMap]

(* The table after the body of the with-block of thread t *)
TableAfter(t, spikes, current_time) ==
    IF t.op = "lookup" THEN get_spike_multiplier(spikes, t.metric, current_time).spikes
    ELSE IF t.op = "trigger"
    THEN Put(spikes, t.metric,
             [multiplier |-> t.multiplier, end_time |-> current_time + t.duration_s])
    ELSE IF t.op = "remove" /\ t.metric \in DOMAIN spikes THEN Del(spikes, t.metric)
    ELSE spikes

(* The threads inside a with-block *)
Inside == {id \in DOMAIN threads : threads[id].pc \in {"inside", "accessed"}}

lockFrame ==
    <<promVars, otelVars, engineVars, removers, key_table, libraryVars, faultVars, runVars,
      boot>>

(* tick: self.control_api.get_spike_multiplier(metric_name) is called *)
BeginLookup(metric) ==
    /\ "engine" \notin DOMAIN threads
    /\ threads' = Put(threads, "engine", AtLock("lookup", metric, 1, 0))
    /\ UNCHANGED <<lockFrame, active_spikes, spike_requests, now, spike_lock>>

(* GET /status is served *)
BeginStatus ==
    /\ "http" \notin DOMAIN threads
    /\ threads' = Put(threads, "http", AtLock("status", "", 1, 0))
    /\ UNCHANGED <<lockFrame, active_spikes, spike_requests, now, spike_lock>>

(* POST /control/spike is served for a metric that has a generator *)
BeginTrigger(metric, multiplier, duration_s) ==
    /\ "http" \notin DOMAIN threads
    /\ spike_requests < MaxSpikes
    /\ metric \in DOMAIN state
    /\ threads' = Put(threads, "http", AtLock("trigger", metric, multiplier, duration_s))
    /\ spike_requests' = spike_requests + 1
    /\ UNCHANGED <<lockFrame, active_spikes, now, spike_lock>>

(* with self._spike_lock: the lock is acquired *)
Acquire(id) ==
    /\ threads[id].pc = "waiting"
    /\ CanAcquire(spike_lock)
    /\ spike_lock' = id
    /\ threads' = [threads EXCEPT ![id].pc = "inside", ![id].seen = active_spikes]
    /\ UNCHANGED <<lockFrame, active_spikes, spike_requests, now>>

(* The body of the with-block reads and writes the table *)
Access(id) ==
    /\ threads[id].pc = "inside"
    /\ active_spikes' = TableAfter(threads[id], active_spikes, now)
    /\ threads' = [threads EXCEPT ![id].pc = "accessed"]
    /\ UNCHANGED <<lockFrame, spike_requests, now, spike_lock>>

(* The with-block is left; trigger_spike then starts its remove_spike thread,
   which sleeps for duration_s *)
Release(id) ==
    /\ threads[id].pc = "accessed"
    /\ spike_lock' = "free"
    /\ threads' =
           IF threads[id].op = "trigger"
           THEN Put(Del(threads, id), "remover" \o ToString(spike_requests),
                    [threads[id] EXCEPT !.op = "remove", !.pc = "asleep",
                                        !.wake = now + threads[id].duration_s,
                                        !.seen = EmptyMap])
           ELSE Del(threads, id)
    /\ UNCHANGED <<lockFrame, active_spikes, spike_requests, now>>

(* remove_spike: time.sleep(duration_s) returns *)
RemoverWakes(id) ==
    /\ threads[id].pc = "asleep"
    /\ now >= threads[id].wake
    /\ threads' = [threads EXCEPT ![id].pc = "waiting"]
    /\ UNCHANGED <<lockFrame, active_spikes, spike_requests, now, spike_lock>>

LockNext ==
    \/ \E m \in MetricNames : BeginLookup(m)
    \/ BeginStatus
    \/ \E m \in MetricNames, k \in SpikeMultipliers, d \in SpikeDurations :
           BeginTrigger(m, k, d)
    \/ \E id \in DOMAIN threads : Acquire(id)
    \/ \E id \in DOMAIN threads : Access(id)
    \/ \E id \in DOMAIN threads : Release(id)
    \/ \E id \in DOMAIN threads : RemoverWakes(id)
    \/ Tock

LockInit == EngineInit(FaultConfig) /\ LibraryIdle

SpecLock == LockInit /\ [][LockNext]_vars

(* C29. Every thread inside an access to active_spikes holds _spike_lock, so
   at most one thread is inside an access at a time, and the table a thread
   found when it entered its with-block is the table it acts on. *)
C29_TableUnderLock ==
    /\ \A id \in Inside : spike_lock = id
    /\ Cardinality(Inside) <= 1
    /\ \A id \in Inside : threads[id].pc = "inside" => threads[id].seen = active_spikes

(* The engine thread is inside get_spike_multiplier on a table that holds an
   override while a remove_spike thread waits for the lock *)
C29_Witness ==
    /\ "engine" \in Inside
    /\ spike_lock = "engine"
    /\ DOMAIN active_spikes # {}
    /\ \E id \in DOMAIN threads :
           threads[id].op = "remove" /\ threads[id].pc = "waiting"

----------------------------------------------------------------------------
(* Startup: main() loads the configuration document, builds the engine and
   lets it tick.  profiles of every document is {"default": Profile}. *)

MaxLoadTicks == 2

(* The type field of MetricConfig: Literal["counter", "gauge", "histogram", "summary"] *)
Kinds == {"counter", "gauge", "histogram", "summary"}

CharsOf(str) == {SubSeq(str, i, i) : i \in 1..Len(str)}

NameStart == CharsOf("abcdefghijklmnopqrstuvwxyzABCDEFGHIJKLMNOPQRSTUVWXYZ_")

NameRest == NameStart \cup CharsOf("0123456789")

(* cardinality.validate_label_names: every key matches ^[a-zA-Z_][a-zA-Z0-9_]*$ *)
validate_label_names(labels) ==
    \A name \in DOMAIN labels :
        /\ Len(name) > 0
        /\ SubSeq(name, 1, 1) \in NameStart
        /\ \A i \in 2..Len(name) : SubSeq(name, i, i) \in NameRest

(* An entry of the metrics list of a document *)
RawMetric(config, profile) == [config |-> config, profile |-> profile]

(* A counter with one more label, of the given name *)
Labelled(name) == [CounterC EXCEPT !.labels = <<Dim(name, ValuesSpec(<<"x">>))>>]

(* The metrics lists of the documents *)
RawMetricLists ==
    {<<>>,
     <<RawMetric(CounterC, "default")>>,
     <<RawMetric(CounterC, "default"), RawMetric(GaugeG, "default")>>,
     <<RawMetric(CounterC, "default"), RawMetric(CounterC, "default")>>,
     <<RawMetric([CounterC EXCEPT !.type = "meter"], "default")>>,
     <<RawMetric(CounterC, "missing")>>,
     <<RawMetric(Labelled("1region"), "default")>>,
     <<RawMetric(Labelled("region_2"), "default")>>}

(* yaml.safe_load of the file: has_metrics tells whether the document has a
   metrics key at all *)
Documents ==
    {[has_metrics |-> h, metrics |-> ms, profiles |-> {"default"},
      enabled |-> [prometheus |-> p, otel |-> o]] :
        h \in BOOLEAN, ms \in RawMetricLists, p \in BOOLEAN, o \in BOOLEAN}

Loadable == {d \in Documents : d.has_metrics \/ d.metrics = <<>>}

(* Config built from raw_config: the fields are validated, validate_metrics runs on
   a metrics value that was given (a field validator is not run on a default),
   then validate_profiles_referenced; the first failure is the error *)
ConfigError(raw_config) ==
    LET ms == raw_config.metrics
        positions == 1..Len(ms)
    IN IF \E i \in positions : ms[i].config.type \notin Kinds THEN "unknown kind"
       ELSE IF raw_config.has_metrics /\ Len(ms) = 0 THEN "no metrics"
       ELSE IF raw_config.has_metrics
                 /\ \E i, j \in positions : i # j /\ ms[i].config.name = ms[j].config.name
       THEN "duplicate names"
       ELSE IF \E i \in positions : ms[i].profile \notin raw_config.profiles
       THEN "undefined profile"
       ELSE "none"

(* config.metrics of a document that loaded *)
ParsedMetrics(raw_config) ==
    [i \in 1..Len(raw_config.metrics) |-> raw_config.metrics[i].config]

(* The label names _initialize_generators hands to register_metric are all
   valid *)
LabelNamesValid(combinations) ==
    \A n \in DOMAIN combinations :
        \A i \in 1..Len(combinations[n]) : validate_label_names(combinations[n][i])

(* PrometheusExporter.register_metric raises what the client library raises
   for the label names; whether the library refuses a name that does not match
   depends on its version and its validation mode *)
RegisterRaises(enabled, combinations) ==
    IF enabled.prometheus /\ ~LabelNamesValid(combinations) THEN BOOLEAN ELSE {FALSE}

loadFrame ==
    <<promVars, otelVars, engineVars, controlVars, key_table, libraryVars, faultVars,
      runVars, lockVars>>

(* main: load_config(args.config); an error ends the process *)
LoadConfig ==
    /\ boot.phase = "start"
    /\ boot' = [boot EXCEPT !.error = ConfigError(boot.document),
                            !.phase = IF ConfigError(boot.document) = "none"
                                      THEN "loaded" ELSE "config_error"]
    /\ UNCHANGED loadFrame

(* main: GeneratorEngine(config, control_api=None); an exception ends the
   process *)
ConstructEngine ==
    /\ boot.phase = "loaded"
    /\ metrics_config' = ParsedMetrics(boot.document)
    /\ \E enabled \in {boot.document.enabled} :
       LET built == Constructed(enabled)'
       IN \E raises \in RegisterRaises(enabled, built.label_combinations) :
             IF raises
             THEN /\ boot' = [boot EXCEPT !.phase = "engine_error"]
                  /\ UNCHANGED <<exporters_enabled, label_combinations, prom_metrics,
                                 instruments, otel_views, state, twin_state>>
             ELSE /\ boot' = [boot EXCEPT !.phase = "initialized"]
                  /\ exporters_enabled' = enabled
                  /\ label_combinations' = built.label_combinations
                  /\ prom_metrics' = built.prom_metrics
                  /\ instruments' = built.instruments
                  /\ otel_views' = built.otel_views
                  /\ state' = built.state
                  /\ twin_state' = built.state
    /\ UNCHANGED <<prom_values, prom_observed, counter_state, gauge_cumulative, otel_calls,
                   tick_count, controlVars, key_table, libraryVars, export_errors, last_tick,
                   runVars, lockVars>>

(* A tick of the engine that main built *)
LoadTick ==
    /\ boot.phase = "initialized"
    /\ tick_count < MaxLoadTicks
    /\ \E draws \in TickDraws(Len(MetricsConfig)) : TickBody(draws, NoFault)

LoadNext == LoadConfig \/ ConstructEngine \/ LoadTick

(* main() has read a document and nothing is built *)
LoadInit ==
    /\ \E d \in Loadable : boot = [phase |-> "start", document |-> d, error |-> "none"]
    /\ EngineInitWith(<<>>, [prometheus |-> FALSE, otel |-> FALSE])
    /\ gens = <<>>
    /\ label_space = [call |-> "none"]
    /\ ThreadsIdle

SpecLoad == LoadInit /\ [][LoadNext]_vars

(* C21. A configuration with a label name that does not match
   [A-Za-z_][A-Za-z0-9_]* is rejected at load or at startup: no engine is
   built, and none ticks, with a metric whose label space has such a name.
   Stated for the configurations that disable the pull exporter, where no
   check of the client library stands between the document and the engine. *)
C21_LabelNamesValidated ==
    (boot.phase = "initialized" /\ ~boot.document.enabled.prometheus) =>
        \A n \in DOMAIN label_combinations :
            LabelNamesValid([m \in {n} |-> label_combinations[m]])
                \/ (/\ n \notin DOMAIN prom_metrics
                    /\ n \notin DOMAIN instruments
                    /\ tick_count = 0)

(* C30. No engine is constructed for a configuration that has no metrics,
   duplicate metric names, a metric of an unknown kind or a metric that refers
   to an undefined profile. *)
C30_InvalidConfigNeverBuilt ==
    boot.phase = "initialized" =>
        LET ms == boot.document.metrics
        IN /\ Len(ms) > 0
           /\ \A i, j \in 1..Len(ms) : i # j => ms[i].config.name # ms[j].config.name
           /\ \A i \in 1..Len(ms) : ms[i].config.type \in Kinds
           /\ \A i \in 1..Len(ms) : ms[i].profile \in boot.document.profiles

----------------------------------------------------------------------------
(* C31. Reconciliation is per series and independent of the order of the
   batch: the tracked value export_point compares a Counter or Gauge point
   with is the value the same series delivered last (0 for its first point),
   whatever points of other series were exported in between, so the deltas
   sent for a series are a function of that series' own points alone. *)
C31_PerSeriesReconciliation ==
    \A s \in DOMAIN otel_calls :
        \A i \in 1..Len(History(s)) :
            History(s)[i].prev = Before(Delivered(s), i)

(* The keys the label space computed at initialisation allows *)
LabelSpaceKeys(n) ==
    {label_key(label_combinations[n][i]) : i \in 1..Len(label_combinations[n])}

SeriesSpaceKeys == {series_key(s[1], s[2]) : s \in AllSeries}

UnregisteredPoints ==
    {[name |-> OtelPrefix \o UnregisteredName, labels |-> [a |-> "x"], value |-> v] :
        v \in PointValues}

(* C32. The state maps stay inside the label space of startup: every key of a
   generator's state map is the label key of one of its label combinations,
   every key of counter_state and gauge_cumulative is the series key of a
   (metric, label combination) pair of the label space, whatever ticks, spikes
   and exports have happened, and exporting a point of a metric that was never
   registered leaves the reconciler as it was. *)
C32_StateMapsBounded ==
    /\ \A n \in MetricNames : DOMAIN state[n] \subseteq LabelSpaceKeys(n)
    /\ DOMAIN counter_state \subseteq SeriesSpaceKeys
    /\ DOMAIN gauge_cumulative \subseteq SeriesSpaceKeys
    /\ \A point \in UnregisteredPoints, t \in Kinds :
           OtelExportPoint(OtelState, point, t) = OtelState

(* Two ticks, one under a spike, have filled the maps *)
C32_Witness ==
    /\ tick_count >= 2
    /\ last_tick.spiked # {}
    /\ \E n \in MetricNames : DOMAIN state[n] = LabelSpaceKeys(n)
    /\ DOMAIN counter_state # {}
    /\ DOMAIN gauge_cumulative # {}


(* Prefixes a configuration can give an exporter and metric names it can
   declare, some of which begin with a prefix themselves *)
PrefixPool == {"", PromPrefix, OtelPrefix, "c"}

NamePool == {"c", "g", "h", "cc", "otel_c", "prom_g", "otel_"}

(* C33. Both exporters receive the same batch: in every tick the list handed to
   the pull exporter and the list handed to the push exporter have the same
   length and, position by position, the labels and the value of the generated
   point (after the multiplier), and differ only in the prefix of the name;
   each exporter strips its prefix back to the original metric name, for every
   name and prefix, so that each point reaches the child and the instrument
   registered under the original name. *)
C33_SameBatch ==
    /\ \A prefix \in PrefixPool, n \in NamePool : StripPrefix(prefix \o n, prefix) = n
    /\ last_tick.ticked =>
         LET all_points == last_tick.all_points
             prom_points == PromPoints(all_points)
             otel_points == OtelPoints(all_points)
         IN /\ Len(prom_points) = Len(all_points)
            /\ Len(otel_points) = Len(all_points)
            /\ \A i \in 1..Len(all_points) :
                  LET point == all_points[i]
                      child == <<point.name, point.labels>>
                  IN /\ prom_points[i].labels = point.labels
                     /\ otel_points[i].labels = point.labels
                     /\ prom_points[i].value = point.value
                     /\ otel_points[i].value = point.value
                     /\ prom_points[i].name = PromPrefix \o point.name
                     /\ otel_points[i].name = OtelPrefix \o point.name
                     /\ StripPrefix(prom_points[i].name, PromPrefix) = point.name
                     /\ StripPrefix(otel_points[i].name, OtelPrefix) = point.name
                     /\ child \in DOMAIN otel_calls
                     /\ Last(History(child)).value = point.value
                     /\ IF metric_types[point.name] \in {"counter", "gauge"}
                        THEN Get(prom_values, child, NaN) = point.value
                        ELSE Last(Get(prom_observed, child, <<NaN>>)) = point.value

(* A tick under a spike has handed a batch of several metrics to both exporters *)
C33_Witness ==
    /\ last_tick.ticked
    /\ last_tick.scaled # {}
    /\ Len(last_tick.all_points) >= 2
    /\ \E i \in 1..Len(last_tick.all_points) : last_tick.all_points[i].value # 0

(* C34. A Counter with the constant algorithm grows by exactly base_rate a
   tick, for every base_rate >= 0 including 0, and by 1 when base_rate is not
   set: the value a series carries in the k-th tick is k times that rate. *)
C34_ConstantCounterGrowth ==
    \A i \in DOMAIN gens :
        LET config == gens[i].config
            rate == IF config.base_rate = None THEN 1 ELSE config.base_rate[1]
        IN (config.type = "counter" /\ config.algorithm = "constant" /\ rate >= 0
                /\ config.clamp = None) =>
               \A k \in 1..Len(gens[i].emitted) :
                   \A j \in 1..Len(gens[i].emitted[k].points) :
                       gens[i].emitted[k].points[j].value = k * rate

(* The algorithm names each kind recognises, and the default of each kind *)
RecognisedAlgorithms(type) ==
    IF type = "counter" THEN {"poisson", "constant"}
    ELSE IF type = "gauge" THEN {"random_walk", "sine", "bernoulli", "sawtooth", "constant"}
    ELSE {"lognormal", "exponential", "mixture"}

DefaultAlgorithm(type) ==
    IF type = "counter" THEN "poisson"
    ELSE IF type = "gauge" THEN "random_walk"
    ELSE "lognormal"

(* C35. Algorithm dispatch: in every tick of a generator of any kind a
   recognised algorithm name selects that algorithm, mixture being recognised
   for Histogram and for Summary alike, and any other name selects the default
   of the kind (poisson, random_walk, lognormal). *)
C35_AlgorithmDispatch ==
    \A i \in DOMAIN gens :
        \A t \in 1..Len(gens[i].emitted) :
            LET config == gens[i].config
            IN gens[i].emitted[t].algorithm =
                   IF config.algorithm \in RecognisedAlgorithms(config.type)
                   THEN config.algorithm
                   ELSE DefaultAlgorithm(config.type)

----------------------------------------------------------------------------
(* Spikes triggered again while an earlier one is pending *)

MaxTriggers == 2

(* POST /control/spike, any number of times for one metric *)
TriggerAgain(metric, multiplier, duration_s) ==
    /\ spike_requests < MaxTriggers
    /\ RegisterSpike(metric, multiplier, duration_s)

SpikesNext ==
    \/ Tick
    \/ \E m \in MetricNames, k \in SpikeMultipliers, d \in SpikeDurations :
           TriggerAgain(m, k, d)
    \/ \E r \in removers : RemoveSpike(r)
    \/ Tock

SpikesInit == EngineInit(RunConfig) /\ LibraryIdle

SpecSpikes == SpikesInit /\ [][SpikesNext]_vars

(* The removal thread of the spike registered last for its metric *)
IsLatest(r) == \A q \in removers : q.metric = r.metric => q.id <= r.id

(* C36. A registered spike stays in effect for its whole duration: at any
   moment before the end_time of the spike registered last for a metric, the
   table still holds that spike and get_spike_multiplier returns its
   multiplier, whatever removal threads of earlier spikes have run. *)
C36_SpikeLastsItsDuration ==
    \A r \in removers :
        (IsLatest(r) /\ now < r.wake) =>
            /\ r.metric \in DOMAIN active_spikes
            /\ active_spikes[r.metric].end_time = r.wake
            /\ get_spike_multiplier(active_spikes, r.metric, now).multiplier
                   = active_spikes[r.metric].multiplier

(* C37. Multiplier lookup: in every tick the multiplier of a metric is 1 when
   the table holds no override for it, the registered multiplier while the
   time is before the override's end_time, and 1 for an override whose
   end_time has passed, whose entry the lookup removes, so that an expired
   override is never applied even when its removal thread has not run; the
   points of a metric whose multiplier is 1 are the points its generator
   yielded, untouched. *)
C37_MultiplierLookup ==
    [][TickStep =>
          \A i \in 1..Len(MetricsConfig) :
              LET name == MetricsConfig[i].name
                  applied == last_tick'.multipliers[i]
                  registered == name \in DOMAIN active_spikes
              IN /\ ~registered => applied = 1 /\ name \notin DOMAIN active_spikes'
                 /\ (registered /\ now < active_spikes[name].end_time) =>
                        /\ applied = active_spikes[name].multiplier
                        /\ name \in DOMAIN active_spikes'
                        /\ active_spikes'[name] = active_spikes[name]
                 /\ (registered /\ now >= active_spikes[name].end_time) =>
                        applied = 1 /\ name \notin DOMAIN active_spikes'
                 /\ applied = 1 =>
                        PointsOf(last_tick'.all_points, name)
                            = PointsOf(last_tick'.twin_points, name)]_vars

(* A tick has looked up an override whose end_time had passed while its
   removal thread had not run: the entry is gone and the metric was not scaled *)
C37_Witness ==
    /\ last_tick.ticked
    /\ \E r \in removers :
           /\ now >= r.wake
           /\ r.metric \notin DOMAIN active_spikes
           /\ r.metric \notin last_tick.scaled
           /\ PointsOf(last_tick.all_points, r.metric) # <<>>

----------------------------------------------------------------------------
(* The scaling loop of a tick, point by point, while the control surface
   registers and removes overrides *)

MaxScaleTicks == 2

(* A counter of two series that adds 1 a tick *)
ScaleConfig == <<[CounterC2 EXCEPT !.algorithm = "constant"]>>

(* Variant: the table is looked up again for every point *)
LoopMultiplier_Reread(spike_multiplier, spikes, metric_name, current_time) ==
    get_spike_multiplier(spikes, metric_name, current_time).multiplier

(* for point in points: point.value *= spike_multiplier uses the local read
   before the loop *)
LoopMultiplier(spike_multiplier, spikes, metric_name, current_time) == spike_multiplier

(* tick: the generator of the metric is ticked and its multiplier looked up *)
ScaleRead(name) ==
    /\ "engine" \notin DOMAIN threads
    /\ tick_count < MaxScaleTicks
    /\ LET gen == GeneratorTick(ConfigOf(name), label_combinations[name], state[name],
                                now, <<0, 0>>)
           lookup == get_spike_multiplier(active_spikes, name, now)
       IN /\ state' = [state EXCEPT ![name] = gen.state]
          /\ active_spikes' = lookup.spikes
          /\ threads' = Put(threads, "engine",
                            [pc |-> "scaling", metric |-> name,
                             spike_multiplier |-> lookup.multiplier,
                             yielded |-> gen.points, points |-> gen.points, i |-> 1])
    /\ UNCHANGED <<promVars, otelVars, metrics_config, label_combinations, tick_count,
                   removers, spike_requests, now, key_table, libraryVars, faultVars,
                   runVars, spike_lock, boot>>

(* tick: one turn of the loop over the points of the metric *)
ScalePoint ==
    /\ "engine" \in DOMAIN threads
    /\ LET t == threads["engine"]
       IN /\ t.spike_multiplier # 1
          /\ t.i <= Len(t.points)
          /\ threads' = [threads EXCEPT
                 !["engine"].points[t.i].value =
                     @ * LoopMultiplier(t.spike_multiplier, active_spikes, t.metric, now),
                 !["engine"].i = @ + 1]
    /\ UNCHANGED <<promVars, otelVars, engineVars, controlVars, key_table, libraryVars,
                   faultVars, runVars, spike_lock, boot>>

(* tick: all_points.extend(points), the export blocks and tick_count += 1 *)
ScaleFinish ==
    /\ "engine" \in DOMAIN threads
    /\ LET t == threads["engine"]
       IN /\ t.spike_multiplier = 1 \/ t.i > Len(t.points)
          /\ ExportBatch(t.points)
          /\ last_tick' = [ticked |-> TRUE, seq |-> last_tick.seq + 1,
                           all_points |-> t.points, twin_points |-> t.yielded,
                           multipliers |-> <<t.spike_multiplier>>,
                           spiked |-> IF t.spike_multiplier # 1
                                      THEN last_tick.spiked \cup {t.metric}
                                      ELSE last_tick.spiked]
    /\ tick_count' = tick_count + 1
    /\ threads' = Del(threads, "engine")
    /\ UNCHANGED <<metrics_config, label_combinations, state, controlVars, key_table,
                   libraryVars, exporters_enabled, export_errors, twin_state, runVars,
                   spike_lock, boot>>

ScaleNext ==
    \/ \E name \in MetricNames : ScaleRead(name)
    \/ ScalePoint
    \/ ScaleFinish
    \/ \E m \in MetricNames, k \in SpikeMultipliers, d \in SpikeDurations :
           TriggerAgain(m, k, d)
    \/ \E r \in removers : RemoveSpike(r)
    \/ Tock

ScaleInit == EngineInit(ScaleConfig) /\ LibraryIdle

SpecScale == ScaleInit /\ [][ScaleNext]_vars

(* Every point of the sequence is the yielded point times k *)
ScaledBy(points, yielded, k) ==
    /\ Len(points) = Len(yielded)
    /\ \A j \in 1..Len(points) : points[j].value = yielded[j].value * k

(* C38. The multiplier is read once per metric per tick: whatever the control
   surface does while the points of a metric are being scaled, the points
   already scaled, and in the end all points of the metric in the tick's batch,
   carry the value the generator yielded times the one multiplier read for the
   metric in that tick. *)
C38_OneMultiplierPerTick ==
    /\ "engine" \in DOMAIN threads =>
           LET t == threads["engine"]
           IN \A j \in 1..Len(t.points) :
                  t.points[j].value =
                      IF j < t.i /\ t.spike_multiplier # 1
                      THEN t.yielded[j].value * t.spike_multiplier
                      ELSE t.yielded[j].value
    /\ last_tick.ticked =>
           ScaledBy(last_tick.all_points, last_tick.twin_points, last_tick.multipliers[1])

(* One of two points has been scaled by the multiplier read, and the table
   would now give another multiplier *)
C38_Witness ==
    /\ "engine" \in DOMAIN threads
    /\ threads["engine"].i = 2
    /\ Len(threads["engine"].points) = 2
    /\ threads["engine"].spike_multiplier # 1
    /\ get_spike_multiplier(active_spikes, threads["engine"].metric, now).multiplier
           # threads["engine"].spike_multiplier

(* The amounts a history of deliveries sent, in order *)
RECURSIVE HistorySent(_)
HistorySent(history) ==
    IF Len(history) = 0 THEN <<>>
    ELSE Head(history).amounts \o HistorySent(Tail(history))

(* C39. A failed push write leaves the reconciler as it was: when the call of
   the instrument raises for a point, the tracked value of the point's series
   is not updated and nothing is recorded as sent, the exception does not
   leave export_point (the other points of the batch are written and the tick
   is counted), and after every write that succeeds the deltas sent for the
   series add up to the value of the point again, the missed amount included. *)
C39_FailedWriteKeepsState ==
    [][(TickStep /\ exporters_enabled.otel) =>
          LET fault == last_tick'.fault
              all_points == last_tick'.all_points
              Failed(j) == fault.kind = "export_point" /\ fault.exporter = "otel"
                               /\ fault.at = j
              Reached(j) == ~(fault.kind = "export_points" /\ fault.exporter = "otel"
                                  /\ j > fault.at)
          IN /\ tick_count' = tick_count + 1
             /\ \A j \in 1..Len(all_points) :
                    LET point == all_points[j]
                        s == <<point.name, point.labels>>
                        key == series_key(point.name, point.labels)
                        history == Get(otel_calls', s, <<>>)
                    IN IF Failed(j)
                       THEN /\ Get(counter_state', key, NaN) = Get(counter_state, key, NaN)
                            /\ Get(gauge_cumulative', key, NaN)
                                   = Get(gauge_cumulative, key, NaN)
                            /\ history = History(s)
                       ELSE Reached(j) =>
                            /\ Len(history) = Len(History(s)) + 1
                            /\ Sum(HistorySent(history)) = point.value
                            /\ IF metric_types[point.name] = "counter"
                               THEN Get(counter_state', key, 0) = point.value
                               ELSE Get(gauge_cumulative', key, 0) = point.value]_vars

(* The write of the counter's first point failed and the write of its second
   point succeeded: the one delta sent is the whole value 2 *)
C39_Witness ==
    /\ tick_count = 2
    /\ exporters_enabled.otel
    /\ last_tick.fault = NoFault
    /\ \E s \in DOMAIN otel_calls :
           /\ metric_types[s[1]] = "counter"
           /\ Len(History(s)) = 1
           /\ History(s)[1].value = 2
           /\ History(s)[1].amounts = <<2>>
           /\ Get(counter_state, series_key(s[1], s[2]), 0) = 2

----------------------------------------------------------------------------
(* The run loop over ticks that raise, for every combination of enabled
   exporters *)

MaxSurviveIterations == 61

(* if self.tick_count % 60 == 0 *)
LogEvery == 60

(* The log line of every 60th tick formats tick_duration, which is assigned
   only when a self-metrics object exists, that is when an exporter is
   enabled; otherwise the name is unbound and the line raises *)
LogRaises(count, enabled) ==
    count % LogEvery = 0 /\ ~enabled.prometheus /\ ~enabled.otel

(* Variant: an exception of tick() leaves run() and ends the engine thread *)
AfterTick_Uncaught(raised) == IF raised THEN "exited" ELSE "pace"

(* run: try: self.tick() except Exception: the error is logged; the pacing
   code follows in both cases *)
AfterTick(raised) == "pace"

(* tick: the export blocks, tick_count += 1 and the log line; tick() returns
   or raises into run() *)
TickEnd ==
    /\ run_pc = "export"
    /\ ExportBatch(batch)
    /\ tick_count' = tick_count + 1
    /\ last_tick' = [ticked |-> TRUE, seq |-> last_tick.seq + 1,
                     raised |-> LogRaises(tick_count + 1, exporters_enabled),
                     spiked |-> last_tick.spiked]
    /\ run_pc' = AfterTick(LogRaises(tick_count + 1, exporters_enabled))
    /\ UNCHANGED <<metrics_config, label_combinations, state, controlVars, key_table,
                   libraryVars, exporters_enabled, export_errors, twin_state, running,
                   stop_pc, iterations, tick_calls, batch, pacing, lockVars, boot>>

SurviveNext ==
    \/ StartThread
    \/ RunStart
    \/ LoopTestWithin(MaxSurviveIterations)
    \/ RunGenerate
    \/ TickEnd
    \/ Pace
    \/ Wake
    \/ StopClearFlag
    \/ StopReturn
    \/ ProcessExit

SurviveInit ==
    \E enabled \in [Exporters -> BOOLEAN] :
        EngineInitWith(RunConfig, enabled) /\ LibraryIdle

SpecSurvive == SurviveInit /\ [][SurviveNext]_vars

(* C40. The run loop survives a failing tick, for every combination of enabled
   exporters: tick_count grows by exactly one in each tick that reaches the end
   of export and by nothing otherwise, so that between two ticks it is the
   number of ticks called; after a tick that raised, run() goes on to its pacing code, and
   the engine thread leaves the loop only through the loop test finding the
   running flag cleared, or with the process. *)
C40_LoopSurvivesFailingTick ==
    [][/\ tick_count' = IF last_tick'.seq = last_tick.seq + 1 THEN tick_count + 1
                        ELSE tick_count
       /\ tick_calls' \in {tick_count', tick_count' + 1}
       /\ run_pc' \in {"pace", "sleep", "test", "generate"} => tick_calls' = tick_count'
       /\ (last_tick'.seq = last_tick.seq + 1 /\ last_tick'.raised) => run_pc' = "pace"
       /\ (run_pc' = "exited" /\ run_pc # "exited") => (run_pc = "test" /\ ~running)
       /\ (run_pc' = "killed" /\ run_pc # "killed") => stop_pc' = "exited"]_vars

(* With both exporters disabled the 60th tick raised after it was counted, and
   the loop has called the 61st tick *)
C40_Witness ==
    /\ ~exporters_enabled.prometheus /\ ~exporters_enabled.otel
    /\ last_tick.ticked /\ last_tick.raised
    /\ tick_count = LogEvery
    /\ iterations = LogEvery + 1
    /\ run_pc = "export"
    /\ running

============================================================================
